---- MODULE Spec2Model ----
(***************************************************************************)
(* Record normalization and load pipeline of BA-SEN-Back                   *)
(* (src/etl/data_cleaner.py, src/etl/etl_script.py).                       *)
(*                                                                         *)
(* Representation of Python values.                                        *)
(*   - A str is a sequence of characters.  A character is a one-character  *)
(*     string; a letter carrying a diacritic is the letter followed by its *)
(*     mark, as in its Unicode decomposition: "A'" is A with acute, "A^" A *)
(*     with grave,  "N~" N with tilde, "u'" lower-case u with acute.        *)
(*   - None and NaN in a text column are the one-element sequences NONE    *)
(*     and NAN, which no str equals.                                       *)
(*   - A value of a quantity column is a record [t, n, d, s]: an int n, a  *)
(*     float n/d, a str s, None, NaN, +-inf or another object.             *)
(*   - A Python set is listed in the order of its literal; the order in    *)
(*     which a run iterates over it depends on the hash seed of the        *)
(*     process and is the variable semilla.                                *)
(***************************************************************************)
EXTENDS Integers, Sequences, FiniteSets, TLC

VARIABLES
  semilla,      \* hash seed of the process: fixes the iteration order of every set
  barrios_por_distrito, \* the locality registry loaded by __init__
  etapa,        \* position of run_complete_correction_pipeline
  entrada,      \* the batch handed to the pipeline: index -> raw record
  df,           \* the DataFrame the pipeline works on: index -> record
  inferido,     \* history: df as it was after event inference (before the filter)
  numValor,     \* limpiar_numero: the value passed
  numSalida,    \* limpiar_numero: what the call did (returned value or raised exception)
  depEntrada,   \* estandarizar_departamento_robusto: the raw value passed
  depSalida,    \* its results: <<>>, <<r1>> or <<r1, r2>> with r2 the result on r1
  bmLlamada,    \* _buscar_mejor_coincidencia: [texto, opciones, umbral] of the call
  bmOrden,      \* the order in which the call enumerated opciones
  bmSalida,     \* its result, <<>> before the call and <<r>> after it
  infFila,      \* event inference: the row, located and categorized, the loop works on
  infSalida,    \* the event the loop stored for it, <<>> before and <<e>> after
  evEntrada,    \* estandarizar_evento_robusto: the raw label passed
  evSalida,     \* its result, <<>> before the call and <<r>> after it
  locCaso,      \* steps 3 and 4 of normalize_locations on one row: [archivo, localidad, distrito, sem]
  locCorregida, \* <<>>, then <<par>> with par the pair corregir_distrito_en_localidad returned
  locSalida,    \* <<>>, then <<r>> with r the result of estandarizar_localidad_robusta
  disCaso,      \* estandarizar_distrito_robusto: [distrito, departamento, sem] of the call
  disSalida,    \* its result, <<>> before the call and <<r>> after it
  bd,           \* the warehouse as committed: dim_fecha, dim_evento, dim_ubicacion, hechos
  tx,           \* the warehouse as the open connection sees it (bd and the uncommitted work)
  sec,          \* the next value of the serial key of each table
  corrida,      \* load runs started so far
  lote,         \* load_data_to_dw: df_cleaned, the records of the run
  fase,         \* position of load_data_to_dw
  pendientes,   \* what the current loop has still to go through
  mapas,        \* the dimension maps loaded before the facts
  cuenta,       \* registros_cargados, missing_fecha, missing_evento, missing_ubicacion, missing_ubicacion_keys
  fallos,       \* statements of the run that raised
  historia,     \* history: what the fact loop did with each record of the run
  dimAntes      \* history: the committed dimensions as the run found them

vars == <<semilla, barrios_por_distrito, etapa, entrada, df, inferido, numValor, numSalida,
          depEntrada, depSalida, bmLlamada, bmOrden, bmSalida,
          infFila, infSalida, evEntrada, evSalida, locCaso, locCorregida, locSalida,
          disCaso, disSalida,
          bd, tx, sec, corrida, lote, fase, pendientes, mapas, cuenta, fallos, historia, dimAntes>>

-----------------------------------------------------------------------------
(* Static data of DataCleaner.__init__                                      *)

\* departamento_orden (data_cleaner.py:48-54): official department -> display rank.
departamento_orden ==
  <<
    << <<"C", "O", "N", "C", "E", "P", "C", "I", "O'", "N">>, 1 >>,
    << <<"S", "A", "N", " ", "P", "E", "D", "R", "O">>, 2 >>,
    << <<"C", "O", "R", "D", "I", "L", "L", "E", "R", "A">>, 3 >>,
    << <<"G", "U", "A", "I", "R", "A'">>, 4 >>,
    << <<"C", "A", "A", "G", "U", "A", "Z", "U'">>, 5 >>,
    << <<"C", "A", "A", "Z", "A", "P", "A'">>, 6 >>,
    << <<"I", "T", "A", "P", "U'", "A">>, 7 >>,
    << <<"M", "I", "S", "I", "O", "N", "E", "S">>, 8 >>,
    << <<"P", "A", "R", "A", "G", "U", "A", "R", "I'">>, 9 >>,
    << <<"A", "L", "T", "O", " ", "P", "A", "R", "A", "N", "A'">>, 10 >>,
    << <<"C", "E", "N", "T", "R", "A", "L">>, 11 >>,
    << <<"N~", "E", "E", "M", "B", "U", "C", "U'">>, 12 >>,
    << <<"A", "M", "A", "M", "B", "A", "Y">>, 13 >>,
    << <<"C", "A", "N", "I", "N", "D", "E", "Y", "U'">>, 14 >>,
    << <<"P", "D", "T", "E", ".", " ", "H", "A", "Y", "E", "S">>, 15 >>,
    << <<"B", "O", "Q", "U", "E", "R", "O", "N">>, 16 >>,
    << <<"A", "L", "T", "O", " ", "P", "A", "R", "A", "G", "U", "A", "Y">>, 17 >>,
    << <<"C", "A", "P", "I", "T", "A", "L">>, 18 >>
  >>

\* estandarizacion_dept (data_cleaner.py:59-154), in the order of the literal.
estandarizacion_dept ==
  <<
    << <<"N~", "E", "E", "M", "B", "U", "C", "U">>, <<"N~", "E", "E", "M", "B", "U", "C", "U'">> >>,
    << <<"N~", "E", "E", "M", "B", "U", "C", "U^">>, <<"N~", "E", "E", "M", "B", "U", "C", "U'">> >>,
    << <<"N~", "E", "M", "B", "U", "C", "U">>, <<"N~", "E", "E", "M", "B", "U", "C", "U'">> >>,
    << <<"N~", "e", "e", "m", "b", "u", "c", "u">>, <<"N~", "E", "E", "M", "B", "U", "C", "U'">> >>,
    << <<"N~", "E", "E", "M", "B", "U", "C", "U'">>, <<"N~", "E", "E", "M", "B", "U", "C", "U'">> >>,
    << <<"A", "L", "T", "O", " ", "P", "A", "R", "A", "N", "A">>, <<"A", "L", "T", "O", " ", "P", "A", "R", "A", "N", "A'">> >>,
    << <<"A", "L", "T", "O", " ", "P", "A", "R", "A", "N", "A^">>, <<"A", "L", "T", "O", " ", "P", "A", "R", "A", "N", "A'">> >>,
    << <<"A", "L", "T", "O", " ", "P", "N", "A^">>, <<"A", "L", "T", "O", " ", "P", "A", "R", "A", "N", "A'">> >>,
    << <<"A", "L", "T", "O", " ", "P", "N", "A'">>, <<"A", "L", "T", "O", " ", "P", "A", "R", "A", "N", "A'">> >>,
    << <<"A", "L", "T", "O", " ", "P", "Y">>, <<"A", "L", "T", "O", " ", "P", "A", "R", "A", "N", "A'">> >>,
    << <<"A", "l", "t", "o", " ", "P", "a", "r", "a", "n", "a">>, <<"A", "L", "T", "O", " ", "P", "A", "R", "A", "N", "A'">> >>,
    << <<"A", "L", "T", "O", " ", "P", "A", "R", "A", "N", "A'">>, <<"A", "L", "T", "O", " ", "P", "A", "R", "A", "N", "A'">> >>,
    << <<"B", "O", "Q", "U", "E", "R", "O^", "N">>, <<"B", "O", "Q", "U", "E", "R", "O", "N">> >>,
    << <<"B", "O", "Q", "U", "E", "R", "O'", "N">>, <<"B", "O", "Q", "U", "E", "R", "O", "N">> >>,
    << <<"B", "o", "q", "u", "e", "r", "o", "n">>, <<"B", "O", "Q", "U", "E", "R", "O", "N">> >>,
    << <<"B", "O", "Q", "U", "E", "R", "O", "N">>, <<"B", "O", "Q", "U", "E", "R", "O", "N">> >>,
    << <<"C", "A", "A", "G", "U", "A", "Z", "U">>, <<"C", "A", "A", "G", "U", "A", "Z", "U'">> >>,
    << <<"C", "A", "A", "G", "U", "A", "Z", "U^">>, <<"C", "A", "A", "G", "U", "A", "Z", "U'">> >>,
    << <<"C", "a", "a", "g", "u", "a", "z", "u">>, <<"C", "A", "A", "G", "U", "A", "Z", "U'">> >>,
    << <<"C", "a", "a", "g", "u", "a", "z", "u'">>, <<"C", "A", "A", "G", "U", "A", "Z", "U'">> >>,
    << <<"C", "A", "A", "G", "U", "A", "Z", "U'">>, <<"C", "A", "A", "G", "U", "A", "Z", "U'">> >>,
    << <<"C", "A", "A", "G", "-", "C", "A", "N", "I", "N", "D">>, <<"C", "A", "A", "G", "U", "A", "Z", "U'">> >>,
    << <<"C", "A", "A", "G", "/", "C", "A", "N", "I", "N">>, <<"C", "A", "A", "G", "U", "A", "Z", "U'">> >>,
    << <<"C", "A", "A", "G", "/", "C", "A", "N", "I", "N", "D", ".">>, <<"C", "A", "A", "G", "U", "A", "Z", "U'">> >>,
    << <<"C", "A", "A", "G", "U", "A", "Z", "U", "-", " ", "A", "L", "T", "O", " ", "P", "A", "R", "A", "N", "A">>, <<"C", "A", "A", "G", "U", "A", "Z", "U'">> >>,
    << <<"C", "A", "A", "G", "U", "A", "Z", "U", "/", "M", "I", "S", "I", "O", "N", "E", "S">>, <<"C", "A", "A", "G", "U", "A", "Z", "U'">> >>,
    << <<"C", "A", "A", "G", "U", "A", "Z", "U", " ", "-", " ", "C", "A", "N", "I", "N", "D", "E", "Y", "U">>, <<"C", "A", "A", "G", "U", "A", "Z", "U'">> >>,
    << <<"C", "A", "A", "G", "U", "A", "Z", "U", " ", "Y", " ", "C", "A", "N", "I", "N", "D", "E", "Y", "U">>, <<"C", "A", "A", "G", "U", "A", "Z", "U'">> >>,
    << <<"C", "A", "A", "G", "U", "A", "Z", "U", ",", " ", "C", "A", "N", "I", "N", "D", "E", "Y", "U", " ", "Y", " ", "S", "A", "N", " ", "P", "E", "D", "R", "O">>, <<"C", "A", "A", "G", "U", "A", "Z", "U'">> >>,
    << <<"C", "A", "A", "G", "U", "A", "Z", "U", ",", " ", "S", "A", "N", " ", "P", "E", "D", "R", "O", " ", "Y", " ", "C", "A", "N", "I", "N", "D", "E", "Y", "U">>, <<"C", "A", "A", "G", "U", "A", "Z", "U'">> >>,
    << <<"C", "A", "A", "G", "U", "A", "Z", "U", "-", "G", "U", "A", "I", "R", "A", " ", "Y", " ", "S", "A", "N", " ", "P", "E", "D", "R", "O">>, <<"C", "A", "A", "G", "U", "A", "Z", "U'">> >>,
    << <<"C", "A", "A", "G", "U", "A", "Z", "U", "-", "G", "U", "A", "I", "R", "A">>, <<"C", "A", "A", "G", "U", "A", "Z", "U'">> >>,
    << <<"C", "A", "A", "Z", "A", "P", "A">>, <<"C", "A", "A", "Z", "A", "P", "A'">> >>,
    << <<"C", "A", "A", "Z", "A", "P", "A^">>, <<"C", "A", "A", "Z", "A", "P", "A'">> >>,
    << <<"C", "a", "a", "z", "a", "p", "a">>, <<"C", "A", "A", "Z", "A", "P", "A'">> >>,
    << <<"C", "A", "A", "Z", "A", "P", "A'">>, <<"C", "A", "A", "Z", "A", "P", "A'">> >>,
    << <<"C", "A", "A", "Z", "A", "P", "A", " ", "-", " ", "G", "U", "A", "I", "R", "A">>, <<"C", "A", "A", "Z", "A", "P", "A'">> >>,
    << <<"C", "a", "a", "z", "a", "p", "a", " ", "-", " ", "G", "u", "a", "i", "r", "a">>, <<"C", "A", "A", "Z", "A", "P", "A'">> >>,
    << <<"C", "A", "N", "I", "N", "D", "E", "Y", "U">>, <<"C", "A", "N", "I", "N", "D", "E", "Y", "U'">> >>,
    << <<"C", "A", "N", "I", "N", "D", "E", "Y", "U^">>, <<"C", "A", "N", "I", "N", "D", "E", "Y", "U'">> >>,
    << <<"C", "a", "n", "i", "n", "d", "e", "y", "u">>, <<"C", "A", "N", "I", "N", "D", "E", "Y", "U'">> >>,
    << <<"C", "A", "N", "I", "N", "D", "E", "Y", "U'">>, <<"C", "A", "N", "I", "N", "D", "E", "Y", "U'">> >>,
    << <<"C", "A", "N", "I", "N", "D", "E", "Y", "U", " ", "-", " ", "C", "A", "A", "G", "U", "A", "Z", "U">>, <<"C", "A", "N", "I", "N", "D", "E", "Y", "U'">> >>,
    << <<"C", "A", "N", "I", "N", "D", "E", "Y", "U", " ", "Y", " ", "S", "A", "N", " ", "P", "E", "D", "R", "O">>, <<"C", "A", "N", "I", "N", "D", "E", "Y", "U'">> >>,
    << <<"C", "E", "N", "T", "/", "C", "O", "R", "D", "I", "L", "L">>, <<"C", "E", "N", "T", "R", "A", "L">> >>,
    << <<"C", "E", "N", "T", "R", "-", "C", "O", "R", "D">>, <<"C", "E", "N", "T", "R", "A", "L">> >>,
    << <<"C", "E", "N", "T", "R", "A", "L">>, <<"C", "E", "N", "T", "R", "A", "L">> >>,
    << <<"C", "E", "N", "T", "R", "A", "L", "-", "C", "O", "R", "D", "I", "L", "L", "E", "R", "A">>, <<"C", "E", "N", "T", "R", "A", "L">> >>,
    << <<"C", "E", "N", "T", "R", "A", "L", "/", "C", "A", "P">>, <<"C", "E", "N", "T", "R", "A", "L">> >>,
    << <<"C", "E", "N", "T", "R", "A", "L", "/", "C", "A", "P", "I", "T", "A", "L">>, <<"C", "E", "N", "T", "R", "A", "L">> >>,
    << <<"C", "E", "N", "T", "R", "A", "L", "/", "C", "O", "R">>, <<"C", "E", "N", "T", "R", "A", "L">> >>,
    << <<"C", "E", "N", "T", "R", "A", "L", "/", "C", "O", "R", "D">>, <<"C", "E", "N", "T", "R", "A", "L">> >>,
    << <<"C", "E", "N", "T", "R", "A", "L", "/", "C", "O", "R", "D", ".">>, <<"C", "E", "N", "T", "R", "A", "L">> >>,
    << <<"C", "E", "N", "T", "R", "A", "L", "/", "C", "O", "R", "D", "I", "L", "L", "E", "R">>, <<"C", "E", "N", "T", "R", "A", "L">> >>,
    << <<"C", "E", "N", "T", "R", "A", "L", "/", "C", "O", "R", "D", "I", "L", "L", "E", "R", "A">>, <<"C", "E", "N", "T", "R", "A", "L">> >>,
    << <<"C", "E", "N", "T", "R", "A", "L", "/", "P", "A", "R", "A", "G", ".">>, <<"C", "E", "N", "T", "R", "A", "L">> >>,
    << <<"c", "e", "n", "t", "r", "a", "l">>, <<"C", "E", "N", "T", "R", "A", "L">> >>,
    << <<"C", "O", "N", "C", "E", "P", "C", "I", "O", "N">>, <<"C", "O", "N", "C", "E", "P", "C", "I", "O'", "N">> >>,
    << <<"C", "O", "N", "C", "E", "P", "C", "I", "O^", "N">>, <<"C", "O", "N", "C", "E", "P", "C", "I", "O'", "N">> >>,
    << <<"C", "o", "n", "c", "e", "p", "c", "i", "o", "n">>, <<"C", "O", "N", "C", "E", "P", "C", "I", "O'", "N">> >>,
    << <<"C", "O", "N", "C", "E", "P", "C", "I", "O'", "N">>, <<"C", "O", "N", "C", "E", "P", "C", "I", "O'", "N">> >>,
    << <<"C", "O", "O", "R", "D", "I", "L", "L", "E", "R", "A">>, <<"C", "O", "R", "D", "I", "L", "L", "E", "R", "A">> >>,
    << <<"C", "O", "R", "D", ".", "/", "C", "E", "N", "T", "R", "A", "L">>, <<"C", "O", "R", "D", "I", "L", "L", "E", "R", "A">> >>,
    << <<"C", "O", "R", "D", "/", "S", ".", "P", "E", "D", "R", "O">>, <<"C", "O", "R", "D", "I", "L", "L", "E", "R", "A">> >>,
    << <<"C", "O", "R", "D", "I", "L", "L", "E", "R", "A">>, <<"C", "O", "R", "D", "I", "L", "L", "E", "R", "A">> >>,
    << <<"C", "O", "R", "D", "I", "L", "L", "E", "R", "A", " ", "A", "R", "R", "O", "Y", "O", "S", " ", "Y", " ", "E", "S", "T", ".">>, <<"C", "O", "R", "D", "I", "L", "L", "E", "R", "A">> >>,
    << <<"C", "O", "R", "D", "I", "L", "L", "E", "R", "A", " ", "Y", " ", "S", "A", "N", " ", "P", "E", "D", "R", "O">>, <<"C", "O", "R", "D", "I", "L", "L", "E", "R", "A">> >>,
    << <<"C", "O", "R", "D", "I", "L", "L", "E", "R", "A", "C", "A", "A", "C", "U", "P", "E^">>, <<"C", "O", "R", "D", "I", "L", "L", "E", "R", "A">> >>,
    << <<"C", "o", "r", "d", "i", "l", "l", "e", "r", "a">>, <<"C", "O", "R", "D", "I", "L", "L", "E", "R", "A">> >>,
    << <<"C", "O", "R", "D", "I", "L", "L", "E", "R", "A", " ", "A", "R", "R", "O", "Y", "O", "S">>, <<"C", "O", "R", "D", "I", "L", "L", "E", "R", "A">> >>,
    << <<"G", "U", "A", "I", "R", "A">>, <<"G", "U", "A", "I", "R", "A'">> >>,
    << <<"G", "U", "A", "I", "R", "A^">>, <<"G", "U", "A", "I", "R", "A'">> >>,
    << <<"G", "U", "I", "A", "R", "A">>, <<"G", "U", "A", "I", "R", "A'">> >>,
    << <<"G", "u", "a", "i", "r", "a">>, <<"G", "U", "A", "I", "R", "A'">> >>,
    << <<"G", "U", "A", "I", "R", "A'">>, <<"G", "U", "A", "I", "R", "A'">> >>,
    << <<"G", "U", "A", "I", "R", "A", " ", "-", " ", "C", "A", "A", "Z", "A", "P", "A">>, <<"G", "U", "A", "I", "R", "A'">> >>,
    << <<"G", "u", "a", "i", "r", "a", " ", "-", " ", "C", "a", "a", "z", "a", "p", "a">>, <<"G", "U", "A", "I", "R", "A'">> >>,
    << <<"I", "T", "A", "P", "U", "A">>, <<"I", "T", "A", "P", "U'", "A">> >>,
    << <<"I", "T", "A", "P", "U", "A", "-", " ", "C", "A", "A", "G", "U", "A", "Z", "U">>, <<"I", "T", "A", "P", "U'", "A">> >>,
    << <<"I", "T", "A", "P", "U^", "A">>, <<"I", "T", "A", "P", "U'", "A">> >>,
    << <<"I", "t", "a", "p", "u", "a">>, <<"I", "T", "A", "P", "U'", "A">> >>,
    << <<"I", "T", "A", "P", "U'", "A">>, <<"I", "T", "A", "P", "U'", "A">> >>,
    << <<"M", "I", "S", "I", "O", "N", "E", "S", " ", "Y", "A", "B", "E", "B", "Y", "R", "Y">>, <<"M", "I", "S", "I", "O", "N", "E", "S">> >>,
    << <<"M", "i", "s", "i", "o", "n", "e", "s">>, <<"M", "I", "S", "I", "O", "N", "E", "S">> >>,
    << <<"M", "I", "S", "I", "O", "N", "E", "S">>, <<"M", "I", "S", "I", "O", "N", "E", "S">> >>,
    << <<"P", "A", "R", "A", "G", "U", "A", "R", "I">>, <<"P", "A", "R", "A", "G", "U", "A", "R", "I'">> >>,
    << <<"P", "A", "R", "A", "G", "U", "A", "R", "I", " ", "P", "A", "R", "A", "G", "U", "A", "R", "I">>, <<"P", "A", "R", "A", "G", "U", "A", "R", "I'">> >>,
    << <<"P", "A", "R", "A", "G", "U", "A", "R", "I^">>, <<"P", "A", "R", "A", "G", "U", "A", "R", "I'">> >>,
    << <<"P", "a", "r", "a", "g", "u", "a", "r", "i">>, <<"P", "A", "R", "A", "G", "U", "A", "R", "I'">> >>,
    << <<"P", "A", "R", "A", "G", "U", "A", "R", "I'">>, <<"P", "A", "R", "A", "G", "U", "A", "R", "I'">> >>,
    << <<"P", "A", "R", "A", "G", "U", "A", "R", "I", " ", "-", " ", "G", "U", "A", "I", "R", "A">>, <<"P", "A", "R", "A", "G", "U", "A", "R", "I'">> >>,
    << <<"P", "a", "r", "a", "g", "u", "a", "r", "i", " ", "-", " ", "G", "u", "a", "i", "r", "a">>, <<"P", "A", "R", "A", "G", "U", "A", "R", "I'">> >>,
    << <<"P", "A", "R", "A", "G", "U", "A", "R", "I", " ", "-", " ", "G", "U", "A", "I", "R", "A">>, <<"P", "A", "R", "A", "G", "U", "A", "R", "I'">> >>,
    << <<"P", "D", "T", "E", " ", "H", "A", "Y", "E", "S">>, <<"P", "D", "T", "E", ".", " ", "H", "A", "Y", "E", "S">> >>,
    << <<"P", "D", "T", "E", " ", "H", "A", "Y", "E", "S", " ", "S", ".", "P", "I", "R", "I", "-", "4", " ", "D", "E", " ", "M", "A", "Y", "O">>, <<"P", "D", "T", "E", ".", " ", "H", "A", "Y", "E", "S">> >>,
    << <<"P", "D", "T", "E", " ", "H", "Y", "E", "S">>, <<"P", "D", "T", "E", ".", " ", "H", "A", "Y", "E", "S">> >>,
    << <<"P", "D", "T", "E", ".", " ", "H", "A", "Y", "E", "S">>, <<"P", "D", "T", "E", ".", " ", "H", "A", "Y", "E", "S">> >>,
    << <<"P", "T", "E", " ", "H", "A", "Y", "E", "S">>, <<"P", "D", "T", "E", ".", " ", "H", "A", "Y", "E", "S">> >>,
    << <<"P", "T", "E", ".", " ", "H", "A", "Y", "E", "S">>, <<"P", "D", "T", "E", ".", " ", "H", "A", "Y", "E", "S">> >>,
    << <<"P", "d", "t", "e", " ", "H", "a", "y", "e", "s">>, <<"P", "D", "T", "E", ".", " ", "H", "A", "Y", "E", "S">> >>,
    << <<"P", "d", "t", "e", ".", " ", "H", "a", "y", "e", "s">>, <<"P", "D", "T", "E", ".", " ", "H", "A", "Y", "E", "S">> >>,
    << <<"P", "D", "T", "E", ".", "H", "A", "Y", "E", "S">>, <<"P", "D", "T", "E", ".", " ", "H", "A", "Y", "E", "S">> >>,
    << <<"S", ".", "P", "E", "D", "R", "O", "/", "C", "A", "N", ".">>, <<"S", "A", "N", " ", "P", "E", "D", "R", "O">> >>,
    << <<"S", "A", "N", " ", "P", "E", "D", "R", "O">>, <<"S", "A", "N", " ", "P", "E", "D", "R", "O">> >>,
    << <<"S", "A", "N", " ", "P", "E", "D", "R", "O", "-", "C", "A", "A", "G", "U", "A", "Z", "U">>, <<"S", "A", "N", " ", "P", "E", "D", "R", "O">> >>,
    << <<"S", "A", "N", " ", "P", "E", "D", "R", "O", "/", " ", "A", "M", "A", "M", "B", "A", "Y">>, <<"S", "A", "N", " ", "P", "E", "D", "R", "O">> >>,
    << <<"S", "A", "N", " ", "P", "E", "D", "R", "O", "/", " ", "C", "A", "N", "I", "N", "D", "E", "Y", "U">>, <<"S", "A", "N", " ", "P", "E", "D", "R", "O">> >>,
    << <<"S", "a", "n", " ", "P", "e", "d", "r", "o">>, <<"S", "A", "N", " ", "P", "E", "D", "R", "O">> >>,
    << <<"S", "A", "N", " ", "P", "E", "D", "R", "O", " ", "-", " ", "C", "A", "N", "I", "N", "D", "E", "Y", "U">>, <<"S", "A", "N", " ", "P", "E", "D", "R", "O">> >>,
    << <<"S", "a", "n", " ", "P", "e", "d", "r", "o", " ", "-", " ", "C", "a", "n", "i", "n", "d", "e", "y", "u">>, <<"S", "A", "N", " ", "P", "E", "D", "R", "O">> >>,
    << <<"V", "A", "R", "I", "O", "S", " ", "D", "E", "P", ".">>, <<"C", "E", "N", "T", "R", "A", "L">> >>,
    << <<"V", "A", "R", "I", "O", "S", " ", "D", "P", "T", "O", "S", ".">>, <<"C", "E", "N", "T", "R", "A", "L">> >>,
    << <<"V", "A", "R", "I", "O", "S", " ", "D", "P", "T", "S", ".">>, <<"C", "E", "N", "T", "R", "A", "L">> >>,
    << <<"v", "a", "r", "i", "o", "s">>, <<"C", "E", "N", "T", "R", "A", "L">> >>,
    << <<"R", "E", "G", "I", "O", "N", " ", "O", "R", "I", "E", "N", "T", "A", "L", "/", " ", "O", "C", "C", "I", "D", "E", "N", "T", "A", "L">>, <<"C", "E", "N", "T", "R", "A", "L">> >>,
    << <<"V", "A", "R", "I", "O", "S">>, <<"C", "E", "N", "T", "R", "A", "L">> >>,
    << <<"A", "S", "O", "C", " ", "M", "U", "S", "I", "C", "O">>, <<"C", "E", "N", "T", "R", "A", "L">> >>,
    << <<"I", "N", "D", "I">>, <<"C", "E", "N", "T", "R", "A", "L">> >>,
    << <<"S", "I", "N", "_", "D", "E", "P", "A", "R", "T", "A", "M", "E", "N", "T", "O">>, <<"C", "E", "N", "T", "R", "A", "L">> >>,
    << <<"S", "I", "N", " ", "E", "S", "P", "E", "C", "I", "F", "I", "C", "A", "R">>, <<"C", "E", "N", "T", "R", "A", "L">> >>,
    << <<"C", "N", "E", "L", " ", "O", "V", "I", "E", "D", "O">>, <<"C", "A", "A", "G", "U", "A", "Z", "U'">> >>,
    << <<"I", "T", "A">>, <<"C", "E", "N", "T", "R", "A", "L">> >>,
    << <<"I", "T", "A", "U", "G", "U", "A">>, <<"C", "E", "N", "T", "R", "A", "L">> >>,
    << <<"V", "I", "L", "L", "A", "R", "I", "C", "A">>, <<"G", "U", "A", "I", "R", "A'">> >>,
    << <<"A", "S", "U", "N", "C", "I", "O", "N">>, <<"C", "A", "P", "I", "T", "A", "L">> >>,
    << <<"A", "S", "U", "N", "C", "I", "O'", "N">>, <<"C", "A", "P", "I", "T", "A", "L">> >>,
    << <<"C", "A", "A", "C", "U", "P", "E^">>, <<"C", "O", "R", "D", "I", "L", "L", "E", "R", "A">> >>,
    << <<"C", "A", "A", "C", "U", "P", "E'">>, <<"C", "O", "R", "D", "I", "L", "L", "E", "R", "A">> >>,
    << <<"A", "L", "T", "O", " ", "P", "A", "R", "A", "G", "U", "A", "Y">>, <<"A", "L", "T", "O", " ", "P", "A", "R", "A", "G", "U", "A", "Y">> >>,
    << <<"A", "M", "A", "M", "B", "A", "Y">>, <<"A", "M", "A", "M", "B", "A", "Y">> >>,
    << <<"C", "A", "P", "I", "T", "A", "L">>, <<"C", "A", "P", "I", "T", "A", "L">> >>
  >>

\* DISTRITOS_POR_DEPARTAMENTO (data_cleaner.py:158-177): department -> its districts,
\* each set listed in the order of its literal.
DISTRITOS_POR_DEPARTAMENTO ==
  <<
    << <<"C", "A", "P", "I", "T", "A", "L">>,
      <<
        <<"A", "S", "U", "N", "C", "I", "O'", "N">>
      >> >>,
    << <<"C", "O", "N", "C", "E", "P", "C", "I", "O'", "N">>,
      <<
        <<"C", "O", "N", "C", "E", "P", "C", "I", "O'", "N">>,
        <<"B", "E", "L", "E'", "N">>,
        <<"H", "O", "R", "Q", "U", "E", "T", "A">>,
        <<"L", "O", "R", "E", "T", "O">>,
        <<"S", "A", "N", " ", "C", "A", "R", "L", "O", "S">>,
        <<"S", "A", "N", " ", "L", "A'", "Z", "A", "R", "O">>,
        <<"Y", "V", "Y", " ", "Y", "A", "'", "U'">>,
        <<"A", "Z", "O", "T", "E", "Y">>,
        <<"S", "G", "T", "O", ".", " ", "J", "O", "S", "E'", " ", "F", "E'", "L", "I", "X", " ", "L", "O'", "P", "E", "Z">>,
        <<"S", "A", "N", " ", "A", "L", "F", "R", "E", "D", "O">>,
        <<"P", "A", "S", "O", " ", "B", "A", "R", "R", "E", "T", "O">>,
        <<"I", "T", "A", "C", "U", "A'">>,
        <<"P", "A", "S", "O", " ", "H", "O", "R", "Q", "U", "E", "T", "A">>,
        <<"A", "R", "R", "O", "Y", "I", "T", "O">>
      >> >>,
    << <<"S", "A", "N", " ", "P", "E", "D", "R", "O">>,
      <<
        <<"S", "A", "N", " ", "P", "E", "D", "R", "O", " ", "D", "E", "L", " ", "Y", "K", "U", "A", "M", "A", "N", "D", "I", "Y", "U'">>,
        <<"A", "N", "T", "E", "Q", "U", "E", "R", "A">>,
        <<"C", "H", "O", "R", "E">>,
        <<"G", "R", "A", "L", ".", " ", "E", "L", "I", "Z", "A", "R", "D", "O", " ", "A", "Q", "U", "I", "N", "O">>,
        <<"I", "T", "A", "C", "U", "R", "U", "B", "I'", " ", "D", "E", "L", " ", "R", "O", "S", "A", "R", "I", "O">>,
        <<"L", "I", "M", "A">>,
        <<"N", "U", "E", "V", "A", " ", "G", "E", "R", "M", "A", "N", "I", "A">>,
        <<"S", "A", "N", " ", "E", "S", "T", "A", "N", "I", "S", "L", "A", "O">>,
        <<"S", "A", "N", " ", "P", "A", "B", "L", "O">>,
        <<"T", "A", "C", "U", "A", "T", "I'">>,
        <<"U", "N", "I", "O'", "N">>,
        <<"2", "5", " ", "D", "E", " ", "D", "I", "C", "I", "E", "M", "B", "R", "E">>,
        <<"V", "I", "L", "L", "A", " ", "D", "E", "L", " ", "R", "O", "S", "A", "R", "I", "O">>,
        <<"G", "R", "A", "L", ".", " ", "R", "E", "S", "Q", "U", "I'", "N">>,
        <<"Y", "A", "T", "A", "I", "T", "Y", " ", "D", "E", "L", " ", "N", "O", "R", "T", "E">>,
        <<"G", "U", "A", "J", "A", "Y", "V", "I'">>,
        <<"C", "A", "P", "I", "I", "B", "A", "R", "Y">>,
        <<"S", "A", "N", "T", "A", " ", "R", "O", "S", "A", " ", "D", "E", "L", " ", "A", "G", "U", "A", "R", "A", "Y">>,
        <<"Y", "R", "Y", "B", "U", "C", "U", "A'">>,
        <<"L", "I", "B", "E", "R", "A", "C", "I", "O'", "N">>,
        <<"S", "A", "N", " ", "J", "O", "S", "E'", " ", "D", "E", "L", " ", "R", "O", "S", "A", "R", "I", "O">>,
        <<"S", "A", "N", " ", "V", "I", "C", "E", "N", "T", "E", " ", "P", "A", "N", "C", "H", "O", "L", "O">>
      >> >>,
    << <<"C", "O", "R", "D", "I", "L", "L", "E", "R", "A">>,
      <<
        <<"C", "A", "A", "C", "U", "P", "E'">>,
        <<"A", "L", "T", "O", "S">>,
        <<"A", "R", "R", "O", "Y", "O", "S", " ", "Y", " ", "E", "S", "T", "E", "R", "O", "S">>,
        <<"A", "T", "Y", "R", "A'">>,
        <<"C", "A", "R", "A", "G", "U", "A", "T", "A", "Y">>,
        <<"E", "M", "B", "O", "S", "C", "A", "D", "A">>,
        <<"E", "U", "S", "E", "B", "I", "O", " ", "A", "Y", "A", "L", "A">>,
        <<"I", "S", "L", "A", " ", "P", "U", "C", "U'">>,
        <<"I", "T", "A", "C", "U", "R", "U", "B", "I'", " ", "D", "E", " ", "L", "A", " ", "C", "O", "R", "D", "I", "L", "L", "E", "R", "A">>,
        <<"J", "U", "A", "N", " ", "D", "E", " ", "M", "E", "N", "A">>,
        <<"L", "O", "M", "A", " ", "G", "R", "A", "N", "D", "E">>,
        <<"M", "B", "O", "C", "A", "Y", "A", "T", "Y", " ", "D", "E", "L", " ", "Y", "H", "A", "G", "U", "Y">>,
        <<"N", "U", "E", "V", "A", " ", "C", "O", "L", "O", "M", "B", "I", "A">>,
        <<"P", "I", "R", "I", "B", "E", "B", "U", "Y">>,
        <<"P", "R", "I", "M", "E", "R", "O", " ", "D", "E", " ", "M", "A", "R", "Z", "O">>,
        <<"S", "A", "N", " ", "B", "E", "R", "N", "A", "R", "D", "I", "N", "O">>,
        <<"S", "A", "N", "T", "A", " ", "E", "L", "E", "N", "A">>,
        <<"S", "A", "N", " ", "J", "O", "S", "E'", " ", "O", "B", "R", "E", "R", "O">>,
        <<"T", "O", "B", "A", "T", "I'">>,
        <<"V", "A", "L", "E", "N", "Z", "U", "E", "L", "A">>
      >> >>,
    << <<"G", "U", "A", "I", "R", "A'">>,
      <<
        <<"V", "I", "L", "L", "A", "R", "R", "I", "C", "A">>,
        <<"B", "O", "R", "J", "A">>,
        <<"C", "A", "P", "I", "T", "A'", "N", " ", "M", "A", "U", "R", "I", "C", "I", "O", " ", "J", "O", "S", "E'", " ", "T", "R", "O", "C", "H", "E">>,
        <<"C", "O", "L", "O", "N", "I", "A", " ", "I", "N", "D", "E", "P", "E", "N", "D", "E", "N", "C", "I", "A">>,
        <<"D", "R", ".", " ", "B", "O", "T", "R", "E", "L", "L">>,
        <<"F", "E'", "L", "I", "X", " ", "P", "E'", "R", "E", "Z", " ", "C", "A", "R", "D", "O", "Z", "O">>,
        <<"G", "A", "R", "A", "M", "B", "A", "R", "E'">>,
        <<"I", "T", "A", "P", "E'">>,
        <<"I", "T", "U", "R", "B", "E">>,
        <<"J", "O", "S", "E'", " ", "F", "A", "S", "S", "A", "R", "D", "I">>,
        <<"M", "B", "O", "C", "A", "Y", "A", "T", "Y">>,
        <<"N", "A", "T", "A", "L", "I", "C", "I", "O", " ", "T", "A", "L", "A", "V", "E", "R", "A">>,
        <<"N~", "U", "M", "I'">>,
        <<"P", "A", "S", "O", " ", "Y", "O", "B", "A'", "I">>,
        <<"S", "A", "N", " ", "S", "A", "L", "V", "A", "D", "O", "R">>,
        <<"T", "E", "B", "A", "I", "C", "U", "A", "R", "Y">>,
        <<"Y", "A", "T", "A", "I", "T", "Y", " ", "D", "E", "L", " ", "G", "U", "A", "I", "R", "A'">>
      >> >>,
    << <<"C", "A", "A", "G", "U", "A", "Z", "U'">>,
      <<
        <<"C", "A", "A", "G", "U", "A", "Z", "U'">>,
        <<"C", "O", "R", "O", "N", "E", "L", " ", "O", "V", "I", "E", "D", "O">>,
        <<"D", "R", ".", " ", "J", ".", " ", "E", "U", "L", "O", "G", "I", "O", " ", "E", "S", "T", "I", "G", "A", "R", "R", "I", "B", "I", "A">>,
        <<"D", "R", ".", " ", "J", "U", "A", "N", " ", "M", "A", "N", "U", "E", "L", " ", "F", "R", "U", "T", "O", "S">>,
        <<"S", "A", "N", " ", "J", "O", "A", "Q", "U", "I'", "N">>,
        <<"S", "A", "N", " ", "J", "O", "S", "E'", " ", "D", "E", " ", "L", "O", "S", " ", "A", "R", "R", "O", "Y", "O", "S">>,
        <<"L", "A", " ", "P", "A", "S", "T", "O", "R", "A">>,
        <<"N", "U", "E", "V", "A", " ", "T", "O", "L", "E", "D", "O">>,
        <<"V", "A", "Q", "U", "E", "R", "I'", "A">>,
        <<"Y", "H", "U'">>,
        <<"3", " ", "D", "E", " ", "F", "E", "B", "R", "E", "R", "O">>,
        <<"C", "A", "R", "A", "Y", "A", "O'">>,
        <<"M", "C", "A", "L", ".", " ", "F", "C", "O", ".", " ", "S", "O", "L", "A", "N", "O", " ", "L", "O'", "P", "E", "Z">>,
        <<"N", "U", "E", "V", "A", " ", "L", "O", "N", "D", "R", "E", "S">>,
        <<"R", "A", "U'", "L", " ", "A", "R", "S", "E", "N", "I", "O", " ", "O", "V", "I", "E", "D", "O">>,
        <<"R", "E", "P", "A", "T", "R", "I", "A", "C", "I", "O'", "N">>,
        <<"R", ".", "I", ".", " ", "3", " ", "C", "O", "R", "R", "A", "L", "E", "S">>,
        <<"S", "I", "M", "O'", "N", " ", "B", "O", "L", "I", "V", "A", "R">>
      >> >>,
    << <<"C", "A", "A", "Z", "A", "P", "A'">>,
      <<
        <<"C", "A", "A", "Z", "A", "P", "A'">>,
        <<"3", " ", "D", "E", " ", "M", "A", "Y", "O">>,
        <<"A", "B", "A", "I'">>,
        <<"B", "U", "E", "N", "A", " ", "V", "I", "S", "T", "A">>,
        <<"C", "O", "R", "O", "N", "E", "L", " ", "M", "A", "C", "I", "E", "L">>,
        <<"D", "R", ".", " ", "M", "O", "I", "S", "E'", "S", " ", "S", ".", " ", "B", "E", "R", "T", "O", "N", "I">>,
        <<"F", "U", "L", "G", "E", "N", "C", "I", "O", " ", "Y", "E", "G", "R", "O", "S">>,
        <<"G", "R", "A", "L", ".", " ", "H", "I", "G", "I", "N", "I", "O", " ", "M", "O", "R", "I'", "N", "I", "G", "O">>,
        <<"S", "A", "N", " ", "J", "U", "A", "N", " ", "N", "E", "P", "O", "M", "U", "C", "E", "N", "O">>,
        <<"T", "A", "V", "A", "I'">>,
        <<"Y", "U", "T", "Y">>
      >> >>,
    << <<"I", "T", "A", "P", "U'", "A">>,
      <<
        <<"E", "N", "C", "A", "R", "N", "A", "C", "I", "O'", "N">>,
        <<"C", "A", "M", "B", "Y", "R", "E", "T", "A'">>,
        <<"C", "A", "P", "I", "T", "A'", "N", " ", "M", "I", "R", "A", "N", "D", "A">>,
        <<"C", "O", "R", "O", "N", "E", "L", " ", "B", "O", "G", "A", "D", "O">>,
        <<"F", "R", "A", "M">>,
        <<"G", "E", "N", "E", "R", "A", "L", " ", "A", "R", "T", "I", "G", "A", "S">>,
        <<"H", "O", "H", "E", "N", "A", "U">>,
        <<"J", "E", "S", "U'", "S", " ", "D", "E", " ", "T", "A", "V", "A", "R", "A", "N", "G", "U", "E'">>,
        <<"L", "A", " ", "P", "A", "Z">>,
        <<"O", "B", "L", "I", "G", "A", "D", "O">>,
        <<"P", "I", "R", "A", "P", "O'">>,
        <<"S", "A", "N", " ", "C", "O", "S", "M", "E", " ", "Y", " ", "D", "A", "M", "I", "A'", "N">>,
        <<"S", "A", "N", " ", "J", "U", "A", "N", " ", "D", "E", "L", " ", "P", "A", "R", "A", "N", "A'">>,
        <<"S", "A", "N", " ", "P", "E", "D", "R", "O", " ", "D", "E", "L", " ", "P", "A", "R", "A", "N", "A'">>,
        <<"T", "R", "I", "N", "I", "D", "A", "D">>,
        <<"N", "A", "T", "A", "L", "I", "O">>,
        <<"C", "A", "R", "M", "E", "N", " ", "D", "E", "L", " ", "P", "A", "R", "A", "N", "A'">>,
        <<"Y", "A", "T", "Y", "T", "A", "Y">>,
        <<"M", "A", "Y", "O", "R", " ", "J", "O", "S", "E'", " ", "D", ".", " ", "O", "T", "A", "N~", "O">>,
        <<"S", "A", "N", " ", "R", "A", "F", "A", "E", "L", " ", "D", "E", "L", " ", "P", "A", "R", "A", "N", "A'">>,
        <<"B", "E", "L", "L", "A", " ", "V", "I", "S", "T", "A">>,
        <<"C", "A", "P", "I", "T", "A'", "N", " ", "M", "E", "Z", "A">>,
        <<"E", "D", "E", "L", "I", "R", "A">>,
        <<"I", "T", "A", "P", "U'", "A", " ", "P", "O", "T", "Y">>,
        <<"A", "L", "T", "O", " ", "V", "E", "R", "A'">>,
        <<"T", "O", "M", "A'", "S", " ", "R", "O", "M", "E", "R", "O", " ", "P", "E", "R", "E", "I", "R", "A">>
      >> >>,
    << <<"M", "I", "S", "I", "O", "N", "E", "S">>,
      <<
        <<"S", "A", "N", " ", "J", "U", "A", "N", " ", "B", "A", "U", "T", "I", "S", "T", "A">>,
        <<"A", "Y", "O", "L", "A", "S">>,
        <<"S", "A", "N", " ", "I", "G", "N", "A", "C", "I", "O", " ", "G", "U", "A", "Z", "U'">>,
        <<"S", "A", "N", "T", "A", " ", "M", "A", "R", "I'", "A", " ", "D", "E", " ", "F", "E">>,
        <<"S", "A", "N", "T", "I", "A", "G", "O">>,
        <<"V", "I", "L", "L", "A", " ", "F", "L", "O", "R", "I", "D", "A">>,
        <<"Y", "A", "B", "E", "B", "I", "R", "Y">>,
        <<"S", "A", "N", " ", "M", "I", "G", "U", "E", "L">>,
        <<"S", "A", "N", " ", "P", "A", "T", "R", "I", "C", "I", "O">>,
        <<"S", "A", "N", "T", "A", " ", "R", "O", "S", "A">>
      >> >>,
    << <<"P", "A", "R", "A", "G", "U", "A", "R", "I'">>,
      <<
        <<"P", "A", "R", "A", "G", "U", "A", "R", "I'">>,
        <<"C", "A", "R", "A", "P", "E", "G", "U", "A'">>,
        <<"A", "C", "A", "H", "A", "Y">>,
        <<"C", "A", "A", "P", "U", "C", "U'">>,
        <<"C", "A", "B", "A", "L", "L", "E", "R", "O">>,
        <<"E", "S", "C", "O", "B", "E", "R">>,
        <<"L", "A", " ", "C", "O", "L", "M", "E", "N", "A">>,
        <<"M", "B", "U", "Y", "A", "P", "E", "Y">>,
        <<"P", "I", "R", "A", "Y", "U'">>,
        <<"Q", "U", "I", "I", "N", "D", "Y">>,
        <<"Q", "U", "Y", "Q", "U", "Y", "H", "O'">>,
        <<"S", "A", "N", " ", "R", "O", "Q", "U", "E", " ", "G", "O", "N", "Z", "A'", "L", "E", "Z", " ", "D", "E", " ", "S", "A", "N", "T", "A", " ", "C", "R", "U", "Z">>,
        <<"S", "A", "P", "U", "C", "A", "I">>,
        <<"T", "E", "B", "I", "C", "U", "A", "R", "Y", "M", "I'">>,
        <<"Y", "A", "G", "U", "A", "R", "O'", "N">>,
        <<"Y", "B", "Y", "C", "U", "I'">>,
        <<"Y", "B", "Y", "T", "Y", "M", "I'">>,
        <<"M", "A", "R", "I'", "A", " ", "A", "N", "T", "O", "N", "I", "A">>
      >> >>,
    << <<"A", "L", "T", "O", " ", "P", "A", "R", "A", "N", "A'">>,
      <<
        <<"C", "I", "U", "D", "A", "D", " ", "D", "E", "L", " ", "E", "S", "T", "E">>,
        <<"D", "O", "C", "T", "O", "R", " ", "J", "U", "A", "N", " ", "L", "E", "O'", "N", " ", "M", "A", "L", "L", "O", "R", "Q", "U", "I'", "N">>,
        <<"D", "O", "C", "T", "O", "R", " ", "R", "A", "U'", "L", " ", "P", "E", "N~", "A">>,
        <<"D", "O", "M", "I", "N", "G", "O", " ", "M", "A", "R", "T", "I'", "N", "E", "Z", " ", "D", "E", " ", "I", "R", "A", "L", "A">>,
        <<"H", "E", "R", "N", "A", "N", "D", "A", "R", "I", "A", "S">>,
        <<"I", "R", "U", "N~", "A">>,
        <<"I", "T", "A", "K", "Y", "R", "Y">>,
        <<"J", "U", "A", "N", " ", "E", "M", "I", "L", "I", "O", " ", "O", "'", "L", "E", "A", "R", "Y">>,
        <<"L", "O", "S", " ", "C", "E", "D", "R", "A", "L", "E", "S">>,
        <<"M", "B", "A", "R", "A", "C", "A", "Y", "U'">>,
        <<"M", "I", "N", "G", "A", " ", "G", "U", "A", "Z", "U'">>,
        <<"M", "I", "N", "G", "A", " ", "P", "O", "R", "A'">>,
        <<"N", "A", "R", "A", "N", "J", "A", "L">>,
        <<"N~", "A", "C", "U", "N", "D", "A", "Y">>,
        <<"P", "R", "E", "S", "I", "D", "E", "N", "T", "E", " ", "F", "R", "A", "N", "C", "O">>,
        <<"S", "A", "N", " ", "A", "L", "B", "E", "R", "T", "O">>,
        <<"S", "A", "N", " ", "C", "R", "I", "S", "T", "O'", "B", "A", "L">>,
        <<"S", "A", "N", "T", "A", " ", "F", "E", " ", "D", "E", "L", " ", "P", "A", "R", "A", "N", "A'">>,
        <<"S", "A", "N", "T", "A", " ", "R", "I", "T", "A">>,
        <<"S", "A", "N", "T", "A", " ", "R", "O", "S", "A", " ", "D", "E", "L", " ", "M", "O", "N", "D", "A", "Y">>,
        <<"T", "A", "V", "A", "P", "Y">>,
        <<"Y", "G", "U", "A", "Z", "U'">>
      >> >>,
    << <<"C", "E", "N", "T", "R", "A", "L">>,
      <<
        <<"A", "R", "E", "G", "U", "A'">>,
        <<"C", "A", "P", "I", "A", "T", "A'">>,
        <<"F", "E", "R", "N", "A", "N", "D", "O", " ", "D", "E", " ", "L", "A", " ", "M", "O", "R", "A">>,
        <<"G", "U", "A", "R", "A", "M", "B", "A", "R", "E'">>,
        <<"I", "T", "A'">>,
        <<"I", "T", "A", "U", "G", "U", "A'">>,
        <<"J", ".", " ", "A", "U", "G", "U", "S", "T", "O", " ", "S", "A", "L", "D", "I'", "V", "A", "R">>,
        <<"L", "A", "M", "B", "A", "R", "E'">>,
        <<"L", "I", "M", "P", "I", "O">>,
        <<"L", "U", "Q", "U", "E">>,
        <<"M", "A", "R", "I", "A", "N", "O", " ", "R", "O", "Q", "U", "E", " ", "A", "L", "O", "N", "S", "O">>,
        <<"N~", "E", "M", "B", "Y">>,
        <<"N", "U", "E", "V", "A", " ", "I", "T", "A", "L", "I", "A">>,
        <<"S", "A", "N", " ", "A", "N", "T", "O", "N", "I", "O">>,
        <<"S", "A", "N", " ", "L", "O", "R", "E", "N", "Z", "O">>,
        <<"V", "I", "L", "L", "A", " ", "E", "L", "I", "S", "A">>,
        <<"V", "I", "L", "L", "E", "T", "T", "A">>,
        <<"Y", "P", "A", "C", "A", "R", "A", "I'">>,
        <<"Y", "P", "A", "N", "E'">>
      >> >>,
    << <<"N~", "E", "E", "M", "B", "U", "C", "U'">>,
      <<
        <<"P", "I", "L", "A", "R">>,
        <<"C", "E", "R", "R", "I", "T", "O">>,
        <<"D", "E", "S", "M", "O", "C", "H", "A", "D", "O", "S">>,
        <<"G", "E", "N", "E", "R", "A", "L", " ", "J", "O", "S", "E'", " ", "E", "D", "U", "V", "I", "G", "I", "S", " ", "D", "I'", "A", "S">>,
        <<"G", "U", "A", "Z", "U'", " ", "C", "U", "A'">>,
        <<"H", "U", "M", "A", "I", "T", "A'">>,
        <<"I", "S", "L", "A", " ", "U", "M", "B", "U'">>,
        <<"L", "A", "U", "R", "E", "L", "E", "S">>,
        <<"P", "A", "S", "O", " ", "D", "E", " ", "P", "A", "T", "R", "I", "A">>,
        <<"S", "A", "N", " ", "J", "U", "A", "N", " ", "B", "A", "U", "T", "I", "S", "T", "A", " ", "D", "E", " ", "N~", "E", "E", "M", "B", "U", "C", "U'">>,
        <<"T", "A", "C", "U", "A", "R", "A", "S">>,
        <<"V", "I", "L", "L", "A", " ", "F", "R", "A", "N", "C", "A">>,
        <<"V", "I", "L", "L", "A", " ", "O", "L", "I", "V", "A">>,
        <<"V", "I", "L", "L", "A", "L", "B", "I'", "N">>
      >> >>,
    << <<"A", "M", "A", "M", "B", "A", "Y">>,
      <<
        <<"P", "E", "D", "R", "O", " ", "J", "U", "A", "N", " ", "C", "A", "B", "A", "L", "L", "E", "R", "O">>,
        <<"B", "E", "L", "L", "A", " ", "V", "I", "S", "T", "A", " ", "N", "O", "R", "T", "E">>,
        <<"C", "A", "P", "I", "T", "A'", "N", " ", "B", "A", "D", "O">>,
        <<"K", "A", "R", "A", "P", "A", "I'">>,
        <<"Z", "A", "N", "J", "A", " ", "P", "Y", "T", "A'">>,
        <<"C", "E", "R", "R", "O", " ", "C", "O", "R", "A'">>
      >> >>,
    << <<"C", "A", "N", "I", "N", "D", "E", "Y", "U'">>,
      <<
        <<"S", "A", "L", "T", "O", " ", "D", "E", "L", " ", "G", "U", "A", "I", "R", "A'">>,
        <<"C", "O", "R", "P", "U", "S", " ", "C", "H", "R", "I", "S", "T", "I">>,
        <<"C", "U", "R", "U", "G", "U", "A", "T", "Y">>,
        <<"G", "E", "N", "E", "R", "A", "L", " ", "F", "R", "A", "N", "C", "I", "S", "C", "O", " ", "C", "A", "B", "A", "L", "L", "E", "R", "O", " ", "A'", "L", "V", "A", "R", "E", "Z">>,
        <<"I", "T", "A", "N", "A", "R", "A'">>,
        <<"K", "A", "T", "U", "E", "T", "E'">>,
        <<"L", "A", " ", "P", "A", "L", "O", "M", "A">>,
        <<"N", "U", "E", "V", "A", " ", "E", "S", "P", "E", "R", "A", "N", "Z", "A">>,
        <<"V", "I", "L", "L", "A", " ", "Y", "G", "A", "T", "I", "M", "I'">>,
        <<"Y", "A", "S", "Y", " ", "C", "A", "N~", "Y">>,
        <<"Y", "P", "E", "J", "H", "U'">>,
        <<"L", "A", "U", "R", "E", "L">>,
        <<"P", "U", "E", "R", "T", "O", " ", "A", "D", "E", "L", "A">>,
        <<"M", "A", "R", "A", "C", "A", "N", "A'">>,
        <<"Y", "B", "Y", " ", "P", "Y", "T", "A">>,
        <<"Y", "B", "Y", "R", "A", "R", "O", "B", "A", "N", "A'">>
      >> >>,
    << <<"P", "D", "T", "E", ".", " ", "H", "A", "Y", "E", "S">>,
      <<
        <<"V", "I", "L", "L", "A", " ", "H", "A", "Y", "E", "S">>,
        <<"B", "E", "N", "J", "A", "M", "I'", "N", " ", "A", "C", "E", "V", "A", "L">>,
        <<"D", "O", "C", "T", "O", "R", " ", "J", "O", "S", "E'", " ", "F", "A", "L", "C", "O'", "N">>,
        <<"G", "E", "N", "E", "R", "A", "L", " ", "B", "R", "U", "G", "U", "E", "Z">>,
        <<"N", "A", "N", "A", "W", "A">>,
        <<"P", "U", "E", "R", "T", "O", " ", "P", "I", "N", "A", "S", "C", "O">>,
        <<"T", "E", "N", "I", "E", "N", "T", "E", " ", "I", "R", "A", "L", "A", " ", "F", "E", "R", "N", "A'", "N", "D", "E", "Z">>,
        <<"N", "U", "E", "V", "A", " ", "A", "S", "U", "N", "C", "I", "O'", "N">>,
        <<"C", "A", "M", "P", "O", " ", "A", "C", "E", "V", "A", "L">>,
        <<"T", "E", "N", "I", "E", "N", "T", "E", " ", "E", "S", "T", "E", "B", "A", "N", " ", "M", "A", "R", "T", "I'", "N", "E", "Z">>
      >> >>,
    << <<"A", "L", "T", "O", " ", "P", "A", "R", "A", "G", "U", "A", "Y">>,
      <<
        <<"F", "U", "E", "R", "T", "E", " ", "O", "L", "I", "M", "P", "O">>,
        <<"B", "A", "H", "I'", "A", " ", "N", "E", "G", "R", "A">>,
        <<"C", "A", "P", "I", "T", "A'", "N", " ", "C", "A", "R", "M", "E", "L", "O", " ", "P", "E", "R", "A", "L", "T", "A">>,
        <<"P", "U", "E", "R", "T", "O", " ", "C", "A", "S", "A", "D", "O">>
      >> >>,
    << <<"B", "O", "Q", "U", "E", "R", "O", "N">>,
      <<
        <<"F", "I", "L", "A", "D", "E", "L", "F", "I", "A">>,
        <<"L", "O", "M", "A", " ", "P", "L", "A", "T", "A">>,
        <<"M", "A", "R", "I", "S", "C", "A", "L", " ", "E", "S", "T", "I", "G", "A", "R", "R", "I", "B", "I", "A">>,
        <<"B", "O", "Q", "U", "E", "R", "O'", "N">>
      >> >>
  >>

\* _construir_diccionario_distritos (data_cleaner.py:367-518), in the order of the literal.
estandarizacion_distritos ==
  <<
    << <<"C", ".", "D", ".", "E">>, <<"C", "I", "U", "D", "A", "D", " ", "D", "E", "L", " ", "E", "S", "T", "E">> >>,
    << <<"C", "D", "E">>, <<"C", "I", "U", "D", "A", "D", " ", "D", "E", "L", " ", "E", "S", "T", "E">> >>,
    << <<"C", " ", "D", "E", " ", "E">>, <<"C", "I", "U", "D", "A", "D", " ", "D", "E", "L", " ", "E", "S", "T", "E">> >>,
    << <<"C", "I", "U", "D", "A", "D", " ", "D", "E", "L", " ", "E", "S", "T", "E">>, <<"C", "I", "U", "D", "A", "D", " ", "D", "E", "L", " ", "E", "S", "T", "E">> >>,
    << <<"C", ".", " ", "D", "E", "L", " ", "E", "S", "T", "E">>, <<"C", "I", "U", "D", "A", "D", " ", "D", "E", "L", " ", "E", "S", "T", "E">> >>,
    << <<"A", "S", "U", "N", "C", "I", "O", "N">>, <<"A", "S", "U", "N", "C", "I", "O'", "N">> >>,
    << <<"A", "S", "U", "N", "C", "I", "O^", "N">>, <<"A", "S", "U", "N", "C", "I", "O'", "N">> >>,
    << <<"A", "S", "U">>, <<"A", "S", "U", "N", "C", "I", "O'", "N">> >>,
    << <<"A", ".", "S", ".", "N", ".", "C">>, <<"A", "S", "U", "N", "C", "I", "O'", "N">> >>,
    << <<"E", "N", "C", "A", "R", "N", "A", "C", "I", "O", "N">>, <<"E", "N", "C", "A", "R", "N", "A", "C", "I", "O'", "N">> >>,
    << <<"E", "N", "C", "A", "R", "N", "A", "C", "I", "O^", "N">>, <<"E", "N", "C", "A", "R", "N", "A", "C", "I", "O'", "N">> >>,
    << <<"E", "N", "C">>, <<"E", "N", "C", "A", "R", "N", "A", "C", "I", "O'", "N">> >>,
    << <<"C", "N", "E", "L", " ", "O", "V", "I", "E", "D", "O">>, <<"C", "O", "R", "O", "N", "E", "L", " ", "O", "V", "I", "E", "D", "O">> >>,
    << <<"C", "N", "E", "L", ".", " ", "O", "V", "I", "E", "D", "O">>, <<"C", "O", "R", "O", "N", "E", "L", " ", "O", "V", "I", "E", "D", "O">> >>,
    << <<"C", ".", " ", "O", "V", "I", "E", "D", "O">>, <<"C", "O", "R", "O", "N", "E", "L", " ", "O", "V", "I", "E", "D", "O">> >>,
    << <<"C", "O", "R", "O", "N", "E", "L", " ", "O", "V", "I", "E", "D", "O">>, <<"C", "O", "R", "O", "N", "E", "L", " ", "O", "V", "I", "E", "D", "O">> >>,
    << <<"P", "E", "D", "R", "O", " ", "J", "U", "A", "N", " ", "C", ".">>, <<"P", "E", "D", "R", "O", " ", "J", "U", "A", "N", " ", "C", "A", "B", "A", "L", "L", "E", "R", "O">> >>,
    << <<"P", "E", "D", "R", "O", " ", "J", "U", "A", "N">>, <<"P", "E", "D", "R", "O", " ", "J", "U", "A", "N", " ", "C", "A", "B", "A", "L", "L", "E", "R", "O">> >>,
    << <<"P", "J", "C">>, <<"P", "E", "D", "R", "O", " ", "J", "U", "A", "N", " ", "C", "A", "B", "A", "L", "L", "E", "R", "O">> >>,
    << <<"P", "E", "D", "R", "O", " ", "J", "U", "A", "N", " ", "C", "A", "B", "A", "L", "L", "E", "R", "O">>, <<"P", "E", "D", "R", "O", " ", "J", "U", "A", "N", " ", "C", "A", "B", "A", "L", "L", "E", "R", "O">> >>,
    << <<"V", "I", "L", "L", "A", " ", "R", "I", "C", "A">>, <<"V", "I", "L", "L", "A", "R", "R", "I", "C", "A">> >>,
    << <<"V", "I", "L", "L", "A", "R", "I", "C", "A">>, <<"V", "I", "L", "L", "A", "R", "R", "I", "C", "A">> >>,
    << <<"C", "O", "N", "C", "E", "P", "C", "I", "O", "N">>, <<"C", "O", "N", "C", "E", "P", "C", "I", "O'", "N">> >>,
    << <<"C", "O", "N", "C", "E", "P", "C", "I", "O^", "N">>, <<"C", "O", "N", "C", "E", "P", "C", "I", "O'", "N">> >>,
    << <<"C", "A", "A", "C", "U", "P", "E">>, <<"C", "A", "A", "C", "U", "P", "E'">> >>,
    << <<"C", "A", "A", "C", "U", "P", "E^">>, <<"C", "A", "A", "C", "U", "P", "E'">> >>,
    << <<"C", "A", "P", "I", "A", "T", "A">>, <<"C", "A", "P", "I", "A", "T", "A'">> >>,
    << <<"C", "A", "P", "I", "A", "T", "A^">>, <<"C", "A", "P", "I", "A", "T", "A'">> >>,
    << <<"I", "T", "A^">>, <<"I", "T", "A'">> >>,
    << <<"I", "T", "A">>, <<"I", "T", "A'">> >>,
    << <<"L", "A", "M", "B", "A", "R", "E">>, <<"L", "A", "M", "B", "A", "R", "E'">> >>,
    << <<"L", "A", "M", "B", "A", "R", "E^">>, <<"L", "A", "M", "B", "A", "R", "E'">> >>,
    << <<"Y", "P", "A", "N", "E">>, <<"Y", "P", "A", "N", "E'">> >>,
    << <<"Y", "P", "A", "N", "E^">>, <<"Y", "P", "A", "N", "E'">> >>,
    << <<"P", "T", "E", " ", "F", "R", "A", "N", "C", "O">>, <<"P", "R", "E", "S", "I", "D", "E", "N", "T", "E", " ", "F", "R", "A", "N", "C", "O">> >>,
    << <<"P", ".", "F", "R", "A", "N", "C", "O">>, <<"P", "R", "E", "S", "I", "D", "E", "N", "T", "E", " ", "F", "R", "A", "N", "C", "O">> >>,
    << <<"P", "R", "E", "S", ".", " ", "F", "R", "A", "N", "C", "O">>, <<"P", "R", "E", "S", "I", "D", "E", "N", "T", "E", " ", "F", "R", "A", "N", "C", "O">> >>,
    << <<"H", "E", "R", "N", "A", "N", "D", "A", "R", "I", "A", "S">>, <<"H", "E", "R", "N", "A", "N", "D", "A", "R", "I", "A", "S">> >>,
    << <<"H", "E", "R", "N", "A", "N", "D", "A", "R", "I'", "A", "S">>, <<"H", "E", "R", "N", "A", "N", "D", "A", "R", "I", "A", "S">> >>,
    << <<"S", "A", "N", " ", "L", "O", "R", "E", "N", "Z", "O">>, <<"S", "A", "N", " ", "L", "O", "R", "E", "N", "Z", "O">> >>,
    << <<"S", ".", "L", "O", "R", "E", "N", "Z", "O">>, <<"S", "A", "N", " ", "L", "O", "R", "E", "N", "Z", "O">> >>,
    << <<"F", "D", "O", " ", "D", "E", " ", "L", "A", " ", "M", "O", "R", "A">>, <<"F", "E", "R", "N", "A", "N", "D", "O", " ", "D", "E", " ", "L", "A", " ", "M", "O", "R", "A">> >>,
    << <<"F", "E", "R", "N", "A", "N", "D", "O", " ", "M", "O", "R", "A">>, <<"F", "E", "R", "N", "A", "N", "D", "O", " ", "D", "E", " ", "L", "A", " ", "M", "O", "R", "A">> >>,
    << <<"F", ".", " ", "D", "E", " ", "L", "A", " ", "M", "O", "R", "A">>, <<"F", "E", "R", "N", "A", "N", "D", "O", " ", "D", "E", " ", "L", "A", " ", "M", "O", "R", "A">> >>,
    << <<"L", "A", "M", "B", "A", "R", "E">>, <<"L", "A", "M", "B", "A", "R", "E'">> >>,
    << <<"N", "E", "M", "B", "Y">>, <<"N~", "E", "M", "B", "Y">> >>,
    << <<"M", "R", "O", "Q", "U", "E", " ", "A", "L", "O", "N", "S", "O">>, <<"M", "A", "R", "I", "A", "N", "O", " ", "R", "O", "Q", "U", "E", " ", "A", "L", "O", "N", "S", "O">> >>,
    << <<"M", ".", " ", "R", "O", "Q", "U", "E", " ", "A", "L", "O", "N", "S", "O">>, <<"M", "A", "R", "I", "A", "N", "O", " ", "R", "O", "Q", "U", "E", " ", "A", "L", "O", "N", "S", "O">> >>,
    << <<"M", "R", "O", "A">>, <<"M", "A", "R", "I", "A", "N", "O", " ", "R", "O", "Q", "U", "E", " ", "A", "L", "O", "N", "S", "O">> >>,
    << <<"V", "I", "L", "L", "A", " ", "E", "L", "I", "S", "A">>, <<"V", "I", "L", "L", "A", " ", "E", "L", "I", "S", "A">> >>,
    << <<"V", ".", " ", "E", "L", "I", "S", "A">>, <<"V", "I", "L", "L", "A", " ", "E", "L", "I", "S", "A">> >>,
    << <<"L", "I", "M", "P", "I", "O">>, <<"L", "I", "M", "P", "I", "O">> >>,
    << <<"L", "I", "M", "P", "I", "O", " ", "C", "E", "N", "T", "R", "O">>, <<"L", "I", "M", "P", "I", "O">> >>,
    << <<"L", "U", "Q", "U", "E">>, <<"L", "U", "Q", "U", "E">> >>,
    << <<"L", "U", "Q", "U", "E", " ", "C", "E", "N", "T", "R", "O">>, <<"L", "U", "Q", "U", "E">> >>,
    << <<"A", "R", "E", "G", "U", "A">>, <<"A", "R", "E", "G", "U", "A'">> >>,
    << <<"A", "R", "E", "G", "U", "A^">>, <<"A", "R", "E", "G", "U", "A'">> >>,
    << <<"G", "U", "A", "R", "A", "M", "B", "A", "R", "E">>, <<"G", "U", "A", "R", "A", "M", "B", "A", "R", "E'">> >>,
    << <<"G", "U", "A", "R", "A", "M", "B", "A", "R", "E^">>, <<"G", "U", "A", "R", "A", "M", "B", "A", "R", "E'">> >>,
    << <<"I", "T", "A", "U", "G", "A">>, <<"I", "T", "A", "U", "G", "U", "A'">> >>,
    << <<"I", "T", "A", "U", "G", "A", "U">>, <<"I", "T", "A", "U", "G", "U", "A'">> >>,
    << <<"Y", "P", "A", "C", "A", "R", "A", "I">>, <<"Y", "P", "A", "C", "A", "R", "A", "I'">> >>,
    << <<"Y", "P", "A", "C", "A", "R", "A", "I^">>, <<"Y", "P", "A", "C", "A", "R", "A", "I'">> >>,
    << <<"V", "I", "L", "L", "E", "T", "A">>, <<"V", "I", "L", "L", "E", "T", "T", "A">> >>,
    << <<"V", "I", "L", "L", "E", "T", " ", "A">>, <<"V", "I", "L", "L", "E", "T", "T", "A">> >>,
    << <<"S", "A", "L", "T", "O", " ", "G", "U", "A", "I", "R", "A">>, <<"S", "A", "L", "T", "O", " ", "D", "E", "L", " ", "G", "U", "A", "I", "R", "A'">> >>,
    << <<"S", "A", "L", "T", "O", " ", "D", "E", "L", " ", "G", "U", "A", "I", "R", "A">>, <<"S", "A", "L", "T", "O", " ", "D", "E", "L", " ", "G", "U", "A", "I", "R", "A'">> >>,
    << <<"F", "I", "L", "A", "D", "E", "L", "F", "I", "A">>, <<"F", "I", "L", "A", "D", "E", "L", "F", "I", "A">> >>,
    << <<"F", "I", "L", "A", "D", "E", "L", "F", ".">>, <<"F", "I", "L", "A", "D", "E", "L", "F", "I", "A">> >>,
    << <<"L", "O", "M", "A", " ", "P", "L", "A", "T", "A">>, <<"L", "O", "M", "A", " ", "P", "L", "A", "T", "A">> >>,
    << <<"L", ".", " ", "P", "L", "A", "T", "A">>, <<"L", "O", "M", "A", " ", "P", "L", "A", "T", "A">> >>,
    << <<"M", ".", " ", "E", "S", "T", "I", "G", "A", "R", "R", "I", "B", "I", "A">>, <<"M", "A", "R", "I", "S", "C", "A", "L", " ", "E", "S", "T", "I", "G", "A", "R", "R", "I", "B", "I", "A">> >>,
    << <<"M", "A", "R", "I", "S", "C", "A", "L", " ", "E", "S", "T", "I", "G", ".">>, <<"M", "A", "R", "I", "S", "C", "A", "L", " ", "E", "S", "T", "I", "G", "A", "R", "R", "I", "B", "I", "A">> >>,
    << <<"B", "E", "L", "L", "A", " ", "V", "I", "S", "T", "A", " ", "N", ".">>, <<"B", "E", "L", "L", "A", " ", "V", "I", "S", "T", "A", " ", "N", "O", "R", "T", "E">> >>,
    << <<"B", ".", "V", "I", "S", "T", "A", " ", "N", "O", "R", "T", "E">>, <<"B", "E", "L", "L", "A", " ", "V", "I", "S", "T", "A", " ", "N", "O", "R", "T", "E">> >>,
    << <<"C", "A", "P", "I", "T", "A", "N", " ", "B", "A", "D", "O">>, <<"C", "A", "P", "I", "T", "A'", "N", " ", "B", "A", "D", "O">> >>,
    << <<"C", "A", "P", ".", " ", "B", "A", "D", "O">>, <<"C", "A", "P", "I", "T", "A'", "N", " ", "B", "A", "D", "O">> >>,
    << <<"F", ".", " ", "O", "L", "I", "M", "P", "O">>, <<"F", "U", "E", "R", "T", "E", " ", "O", "L", "I", "M", "P", "O">> >>,
    << <<"F", "U", "E", "R", "T", "E", " ", "O", "L", ".">>, <<"F", "U", "E", "R", "T", "E", " ", "O", "L", "I", "M", "P", "O">> >>,
    << <<"P", "T", "O", " ", "C", "A", "S", "A", "D", "O">>, <<"P", "U", "E", "R", "T", "O", " ", "C", "A", "S", "A", "D", "O">> >>,
    << <<"P", ".", " ", "C", "A", "S", "A", "D", "O">>, <<"P", "U", "E", "R", "T", "O", " ", "C", "A", "S", "A", "D", "O">> >>
  >>

\* estandarizacion_eventos (data_cleaner.py:233-310), in the order of the literal.
estandarizacion_eventos ==
  <<
    << <<"A", "L", "B", ".", "C", "O", "V", "I", "D">>, <<"C", "O", "V", "I", "D">> >>,
    << <<"A", "L", "B", "E", "R", ".", "C", "O", "V", "I", "D">>, <<"C", "O", "V", "I", "D">> >>,
    << <<"A", "L", "B", "E", "R", "G", ".", "C", "O", "V", "I", "D">>, <<"C", "O", "V", "I", "D">> >>,
    << <<"C", "O", "V", "I", " ", "1", "9", " ", "O", "L", "L", ".">>, <<"C", "O", "V", "I", "D">> >>,
    << <<"C", "O", "V", "I", "D", " ", "1", "9">>, <<"C", "O", "V", "I", "D">> >>,
    << <<"C", "O", "V", "I">>, <<"C", "O", "V", "I", "D">> >>,
    << <<"V", "A", "C", ".", "A", "R", "A", "T", "I", "R", "I">>, <<"C", "O", "V", "I", "D">> >>,
    << <<"V", "A", "C", "U", "N", "A", "T", "O", "R", "I", "O", " ", "S", "N", "D">>, <<"C", "O", "V", "I", "D">> >>,
    << <<"A", "P", "O", "Y", ".", "I", "N", "S", "T", ".", "C", "O", "V", "I", "D", " ", "1", "9">>, <<"C", "O", "V", "I", "D">> >>,
    << <<"A", "P", "O", "Y", "O", " ", "I", "N", "S", "T", "I", "T", "U", "C", "I", "O", "N", "A", "L", " ", "C", "O", "V", "I", "D">>, <<"C", "O", "V", "I", "D">> >>,
    << <<"N~", "A", "N", "G", "A", "R", "E", "C", "O">>, <<"C", "O", "V", "I", "D">> >>,
    << <<"N~", "A", "N", "G", "A", "R", "E", "K", "O">>, <<"C", "O", "V", "I", "D">> >>,
    << <<"I", "N", "C", ".", "F", "O", "R", "E", "S", "T", "A", "L">>, <<"I", "N", "C", "E", "N", "D", "I", "O">> >>,
    << <<"I", "N", "C", "C", "E", "N", "D", "I", "O">>, <<"I", "N", "C", "E", "N", "D", "I", "O">> >>,
    << <<"I", "N", "C", "E", "N", "D">>, <<"I", "N", "C", "E", "N", "D", "I", "O">> >>,
    << <<"I", "N", "C", "E", "N", "D", ".", " ", "D", "O", "M", "I", "C", ".">>, <<"I", "N", "C", "E", "N", "D", "I", "O">> >>,
    << <<"I", "N", "C", "E", "N", "D", "I", "O", " ", "D", "O", "M", "I", "C", "I", "L", "I", "A", "R", "I", "O">>, <<"I", "N", "C", "E", "N", "D", "I", "O">> >>,
    << <<"D", "E", "R", "R", "U", "M", "B", "E">>, <<"I", "N", "C", "E", "N", "D", "I", "O">> >>,
    << <<"I", "N", "C", "E", "N", "D", "I", "O", " ", "F", "O", "R", "E", "S", "T", "A", "L">>, <<"I", "N", "C", "E", "N", "D", "I", "O">> >>,
    << <<"E", "V", "E", "N", "T", "O", " ", "C", "L", "I", "M", "A", "T", "I", "C", "O">>, <<"T", "O", "R", "M", "E", "N", "T", "A", " ", "S", "E", "V", "E", "R", "A">> >>,
    << <<"T", "O", "R", "M", "E", "N", "T", "A", " ", "S", "E", "V", "E", "R", "A", " ", "C", "E", "N", "T", "R", "A", "L">>, <<"T", "O", "R", "M", "E", "N", "T", "A", " ", "S", "E", "V", "E", "R", "A">> >>,
    << <<"E", "V", "E", "N", "T", "O", " ", "C", "L", "I", "M", "A", "T", "I", "C", "O", " ", "T", "E", "M", "P", "O", "R", "A", "L">>, <<"T", "O", "R", "M", "E", "N", "T", "A", " ", "S", "E", "V", "E", "R", "A">> >>,
    << <<"M", "U", "N", "I", "C", "I", "P", "A", "L", "I", "D", "A", "D">>, <<"T", "O", "R", "M", "E", "N", "T", "A", " ", "S", "E", "V", "E", "R", "A">> >>,
    << <<"T", "E", "M", "P", "O", "R", "A", "L">>, <<"T", "O", "R", "M", "E", "N", "T", "A", " ", "S", "E", "V", "E", "R", "A">> >>,
    << <<"T", "E", "M", "P", "O", "R", "A", "L", " ", "C", "E", "N", "T", "R", "A", "L">>, <<"T", "O", "R", "M", "E", "N", "T", "A", " ", "S", "E", "V", "E", "R", "A">> >>,
    << <<"T", "E", "M", "P", "O", "R", "A", "L", " ", "-", " ", "M", "U", "N", "I", "C", "I", "P", "A", "L", "I", "D", "A", "D">>, <<"T", "O", "R", "M", "E", "N", "T", "A", " ", "S", "E", "V", "E", "R", "A">> >>,
    << <<"T", "E", "M", "P", "O", "R", "A", "L", "-", "G", "O", "B", "E", "R", "N", "A", "C", "I", "O", "N">>, <<"T", "O", "R", "M", "E", "N", "T", "A", " ", "S", "E", "V", "E", "R", "A">> >>,
    << <<"T", "E", "M", "P", "O", "R", "A", "L", " ", "-", " ", "G", "O", "B", "E", "R", "N", "A", "C", "I", "O", "N">>, <<"T", "O", "R", "M", "E", "N", "T", "A", " ", "S", "E", "V", "E", "R", "A">> >>,
    << <<"T", "E", "M", "P", "O", "R", "A", "L", "-", "G", "O", "B", "E", "R", "N", "A", "C", "I", "O'", "N">>, <<"T", "O", "R", "M", "E", "N", "T", "A", " ", "S", "E", "V", "E", "R", "A">> >>,
    << <<"T", "E", "M", "P", "O", "R", "A", "L", " ", "-", " ", "G", "O", "B", "E", "R", "N", "A", "C", "I", "O'", "N">>, <<"T", "O", "R", "M", "E", "N", "T", "A", " ", "S", "E", "V", "E", "R", "A">> >>,
    << <<"T", "E", "M", "P", "O", "R", "A", "L", " ", "C", "E", "N", "T", "R", "A", "L", " ", "M", "U", "N", "I", "C", "I", "P", "A", "L", "I", "D", "A", "D">>, <<"T", "O", "R", "M", "E", "N", "T", "A", " ", "S", "E", "V", "E", "R", "A">> >>,
    << <<"S", "E", "Q", ".", " ", "E", " ", "I", "N", "U", "N", "D", ".">>, <<"S", "E", "Q", "U", "I", "A">> >>,
    << <<"S", "E", "Q", ".", "/", "I", "N", "U", "N", "D", ".">>, <<"S", "E", "Q", "U", "I", "A">> >>,
    << <<"S", "E", "Q", "U", "I", "A", "-", "I", "N", "U", "N", "D", ".">>, <<"S", "E", "Q", "U", "I", "A">> >>,
    << <<"C", "O", "M", "I", "S", "I", "O", "N", " ", "V", "E", "C", "I", "N", "A", "L">>, <<"E", "X", "T", "R", "E", "M", "A", " ", "V", "U", "L", "N", "E", "R", "A", "B", "I", "L", "I", "D", "A", "D">> >>,
    << <<"A", "Y", "U", "D", "A", " ", "S", "O", "L", "I", "D", "A", "R", "I", "A">>, <<"E", "X", "T", "R", "E", "M", "A", " ", "V", "U", "L", "N", "E", "R", "A", "B", "I", "L", "I", "D", "A", "D">> >>,
    << <<"A", "s", "i", "s", "t", "e", "n", "c", "i", "a", " ", "d", "e", " ", "l", "a", " ", "c", "o", "r", "t", "e">>, <<"C", ".", "I", ".", "D", ".", "H", ".">> >>,
    << <<"A", "S", "I", "S", "T", "E", "N", "C", "I", "A", " ", "D", "E", " ", "L", "A", " ", "C", "O", "R", "T", "E">>, <<"C", ".", "I", ".", "D", ".", "H", ".">> >>,
    << <<"C", " ", "I", " ", "D", " ", "H">>, <<"C", ".", "I", ".", "D", ".", "H", ".">> >>,
    << <<"C", ".", "H", ".", "D", ".", "H">>, <<"C", ".", "I", ".", "D", ".", "H", ".">> >>,
    << <<"C", ".", "I", ".", "D", ".", "H">>, <<"C", ".", "I", ".", "D", ".", "H", ".">> >>,
    << <<"C", ".", "I", ".", "D", ".", "H", ".">>, <<"C", ".", "I", ".", "D", ".", "H", ".">> >>,
    << <<"C", ".", "I", "D", ".", "H">>, <<"C", ".", "I", ".", "D", ".", "H", ".">> >>,
    << <<"C", "I", "D", "H">>, <<"C", ".", "I", ".", "D", ".", "H", ".">> >>,
    << <<"O", "P", "E", "R", "A", "T", "I", "V", "O", " ", "N~", "E", "N~", "U", "A">>, <<"O", "P", "E", "R", "A", "T", "I", "V", "O", " ", "J", "A", "H", "O", "'", "I">> >>,
    << <<"O", "P", "E", "R", "A", "T", "I", "V", "O", " ", "E", "S", "P", "E", "C", "I", "A", "L">>, <<"O", "P", "E", "R", "A", "T", "I", "V", "O", " ", "J", "A", "H", "O", "'", "I">> >>,
    << <<"O", "P", " ", "I", "N", "V", "I", "E", "R", "N", "O">>, <<"O", "P", "E", "R", "A", "T", "I", "V", "O", " ", "J", "A", "H", "O", "'", "I">> >>,
    << <<"O", "P", ".", " ", "I", "N", "V", "I", "E", "R", "N", "O">>, <<"O", "P", "E", "R", "A", "T", "I", "V", "O", " ", "J", "A", "H", "O", "'", "I">> >>,
    << <<"O", "P", ".", " ", "N~", "E", "N~", "U", "A">>, <<"O", "P", "E", "R", "A", "T", "I", "V", "O", " ", "J", "A", "H", "O", "'", "I">> >>,
    << <<"O", "P", ".", "I", "N", "V", "I", "E", "R", "N", "O">>, <<"O", "P", "E", "R", "A", "T", "I", "V", "O", " ", "J", "A", "H", "O", "'", "I">> >>,
    << <<"I", "N", "U", "N", "D", "A", "C", ".">>, <<"I", "N", "U", "N", "D", "A", "C", "I", "O", "N">> >>,
    << <<"I", "N", "U", "N", "D", "A", "I", "O'", "N", " ", "S", ".">>, <<"I", "N", "U", "N", "D", "A", "C", "I", "O", "N">> >>,
    << <<"I", "N", "U", "N", "D", "A", "C", "I", "O", "N", " ", "S", "U", "B", "I", "T", "A">>, <<"I", "N", "U", "N", "D", "A", "C", "I", "O", "N">> >>,
    << <<"I", "N", "U", "N", "D", "A", "C", "I", "O", "N", " ", "\"", " ", "D", "E", "C", "L", "A", "R", "A", "C", "I", "O", "N", " ", "D", "E", " ", "E", "M", "E", "R", "G", "E", "N", "C", "I", "A", "\"">>, <<"I", "N", "U", "N", "D", "A", "C", "I", "O", "N">> >>,
    << <<"L", "N", "U", "N", "D", "A", "C", "I", "O", "N">>, <<"I", "N", "U", "N", "D", "A", "C", "I", "O", "N">> >>,
    << <<"I", "N", "U", "N", "D", "A", "C", "I", "O'", "N">>, <<"I", "N", "U", "N", "D", "A", "C", "I", "O", "N">> >>,
    << <<"O", "L", "L", "A", " ", "P">>, <<"O", "L", "L", "A", " ", "P", "O", "P", "U", "L", "A", "R">> >>,
    << <<"O", "L", "L", "A", " ", "P", ".">>, <<"O", "L", "L", "A", " ", "P", "O", "P", "U", "L", "A", "R">> >>,
    << <<"O", "L", "L", "A", " ", "P", "O", "P">>, <<"O", "L", "L", "A", " ", "P", "O", "P", "U", "L", "A", "R">> >>,
    << <<"O", "L", "L", "A", " ", "P", "O", "P", ".">>, <<"O", "L", "L", "A", " ", "P", "O", "P", "U", "L", "A", "R">> >>,
    << <<"O", "L", "L", "A", " ", "P", "O", "P", "I", "L", "A", "R">>, <<"O", "L", "L", "A", " ", "P", "O", "P", "U", "L", "A", "R">> >>,
    << <<"O", "L", "L", "A", " ", "P", "O", "P", "O", "L", "A", "R">>, <<"O", "L", "L", "A", " ", "P", "O", "P", "U", "L", "A", "R">> >>,
    << <<"O", "L", "L", "A", " ", "P", "O", "P", "U", "L">>, <<"O", "L", "L", "A", " ", "P", "O", "P", "U", "L", "A", "R">> >>,
    << <<"O", "L", "L", "A", "P", ".">>, <<"O", "L", "L", "A", " ", "P", "O", "P", "U", "L", "A", "R">> >>,
    << <<"O", "L", "L", "A", " ", "P", "O", "P", "U", "L", "A", "R", " ", "C", "O", "V", "I", "D">>, <<"O", "L", "L", "A", " ", "P", "O", "P", "U", "L", "A", "R">> >>,
    << <<"I", "N", "E", "R", "A", "M">>, <<"O", "T", "R", "O", "S">> >>,
    << <<"I", "N", "E", "R", "A", "M", "(", "M", "I", "N", "G", "A", ")">>, <<"O", "T", "R", "O", "S">> >>,
    << <<"M", "I", "N", "G", "A">>, <<"O", "T", "R", "O", "S">> >>,
    << <<"I", "N", "D", "E", "R", "T">>, <<"O", "T", "R", "O", "S">> >>,
    << <<"I", "N", "D", "I", " ", "M", "B", "Y", "A", " ", "G", "U", "A", "R", "A", "N", "I">>, <<"O", "T", "R", "O", "S">> >>,
    << <<"N", "I", "N~", "E", "Z">>, <<"O", "T", "R", "O", "S">> >>,
    << <<"D", "G", "R", "R", " ", "0", "2", "7", "/", "2", "2">>, <<"O", "T", "R", "O", "S">> >>,
    << <<"D", "G", "R", "R", " ", "0", "2", "8", "/", "2", "2">>, <<"O", "T", "R", "O", "S">> >>,
    << <<"D", "O", "N", "A", "C">>, <<"O", "T", "R", "O", "S">> >>,
    << <<"D", "O", "N", "A", "C", ".">>, <<"O", "T", "R", "O", "S">> >>,
    << <<"D", "O", "N", "A", "C", "I", "O^", "N">>, <<"O", "T", "R", "O", "S">> >>,
    << <<"E", "D", "A", "N">>, <<"O", "T", "R", "O", "S">> >>,
    << <<"E", "V", "A", "L", "U", "A", "C", "I", "O", "N", " ", "D", "E", " ", "D", "A", "N~", "O", "S">>, <<"O", "T", "R", "O", "S">> >>,
    << <<"T", "R", "A", "B", "A", "J", "O", " ", "C", "O", "M", "U", "N", "I", "T", "A", "R", "I", "O">>, <<"O", "T", "R", "O", "S">> >>,
    << <<"A", "S", "I", "S", "T", "E", "N", "C", "I", "A", " ", "I", "N", "S", "T", "I", "T", "U", "C", "I", "O", "N", "A", "L">>, <<"O", "T", "R", "O", "S">> >>,
    << <<"A", "P", "O", "Y", "O", " ", "L", "O", "G", "I", "S", "T", "I", "C", "O">>, <<"O", "T", "R", "O", "S">> >>,
    << <<"A", "P", "O", "Y", "O", " ", "I", "N", "S", "T", "I", "T", "U", "C", "I", "O", "N", "A", "L">>, <<"O", "T", "R", "O", "S">> >>,
    << <<"A", "P", "O", "Y", ".", "L", "O", "G">>, <<"O", "T", "R", "O", "S">> >>,
    << <<"A", "P", "O", "Y", " ", "L", "O", "G">>, <<"O", "T", "R", "O", "S">> >>,
    << <<"A", "P", "O", "Y", "O", " ", "L", "O", "G", ".">>, <<"O", "T", "R", "O", "S">> >>,
    << <<"O", "T", "R", "O", "S", " ", "\"", "T", "E", "M", "P", "O", "R", "A", "L", "\"">>, <<"O", "T", "R", "O", "S">> >>,
    << <<"A", "P", "O", "Y", "O", " ", "L", "O", "G", "I", "S", "T", "I", "C", "O", " ", "I", "N", "D", "I">>, <<"O", "T", "R", "O", "S">> >>,
    << <<"P", "R", "E", "P", ".">>, <<"E", "L", "I", "M", "I", "N", "A", "R", "_", "R", "E", "G", "I", "S", "T", "R", "O">> >>,
    << <<"P", "R", "E", "P", "O", "S">>, <<"E", "L", "I", "M", "I", "N", "A", "R", "_", "R", "E", "G", "I", "S", "T", "R", "O">> >>,
    << <<"P", "R", "E", "P", "O", "S", ".">>, <<"E", "L", "I", "M", "I", "N", "A", "R", "_", "R", "E", "G", "I", "S", "T", "R", "O">> >>,
    << <<"P", "R", "E", "P", "O", "S", "I", "C", ".">>, <<"E", "L", "I", "M", "I", "N", "A", "R", "_", "R", "E", "G", "I", "S", "T", "R", "O">> >>,
    << <<"P", "R", "E", "P", "O", "S", "I", "C", "I", "O", "N", ".">>, <<"E", "L", "I", "M", "I", "N", "A", "R", "_", "R", "E", "G", "I", "S", "T", "R", "O">> >>,
    << <<"P", "R", "E", " ", "P", "O", "S", "I", "C", "I", "O", "N", "A", "M", "I", "E", "N", "T", "O">>, <<"E", "L", "I", "M", "I", "N", "A", "R", "_", "R", "E", "G", "I", "S", "T", "R", "O">> >>,
    << <<"P", "/", " ", "S", "T", "O", "C", "K", " ", "D", "E", "L", " ", "C", "O", "E">>, <<"E", "L", "I", "M", "I", "N", "A", "R", "_", "R", "E", "G", "I", "S", "T", "R", "O">> >>,
    << <<"R", "E", "P", ".", "D", "E", " ", "M", "A", "T", "E", "R", "I", "A", "L">>, <<"E", "L", "I", "M", "I", "N", "A", "R", "_", "R", "E", "G", "I", "S", "T", "R", "O">> >>,
    << <<"R", "E", "P", "O", "S", "I", "C", ".", "M", "A", "T", "E", "R">>, <<"E", "L", "I", "M", "I", "N", "A", "R", "_", "R", "E", "G", "I", "S", "T", "R", "O">> >>,
    << <<"R", "E", "P", "O", "S", "I", "C", ".", "M", "A", "T", "E", "R", ".">>, <<"E", "L", "I", "M", "I", "N", "A", "R", "_", "R", "E", "G", "I", "S", "T", "R", "O">> >>,
    << <<"P", "R", "O", "V", "I", "S", "I", "O", "N", " ", "D", "E", " ", "M", "A", "T", "E", "R", "I", "A", "L", "E", "S">>, <<"E", "L", "I", "M", "I", "N", "A", "R", "_", "R", "E", "G", "I", "S", "T", "R", "O">> >>,
    << <<"R", "E", "A", "B", "A", "S", "T", "E", "C", "I", "M", "I", "E", "N", "T", "O">>, <<"E", "L", "I", "M", "I", "N", "A", "R", "_", "R", "E", "G", "I", "S", "T", "R", "O">> >>,
    << <<"R", "E", "P", "A", "R", "A", "C", "I", "O", "N">>, <<"E", "L", "I", "M", "I", "N", "A", "R", "_", "R", "E", "G", "I", "S", "T", "R", "O">> >>,
    << <<"R", "E", "P", "A", "R", "A", "C", "I", "O", "N", " ", "D", "E", " ", "B", "A", "N~", "A", "D", "E", "R", "A">>, <<"E", "L", "I", "M", "I", "N", "A", "R", "_", "R", "E", "G", "I", "S", "T", "R", "O">> >>,
    << <<"R", "E", "P", "A", "R", "A", "C", "I", "O", "N", " ", "D", "E", " ", "O", "B", "R", "E", "S">>, <<"E", "L", "I", "M", "I", "N", "A", "R", "_", "R", "E", "G", "I", "S", "T", "R", "O">> >>,
    << <<"P", "R", "E", "S", "T", "A", "M", "O">>, <<"E", "L", "I", "M", "I", "N", "A", "R", "_", "R", "E", "G", "I", "S", "T", "R", "O">> >>,
    << <<"R", "E", "P", "O", "S", "I", "C", "I", "O", "N">>, <<"E", "L", "I", "M", "I", "N", "A", "R", "_", "R", "E", "G", "I", "S", "T", "R", "O">> >>,
    << <<"R", "E", "P", "O", "S", "I", "C", "I", "O", "N", " ", "D", "E", " ", "M", "A", "T", "E", "R", "I", "A", "L", "E", "S">>, <<"E", "L", "I", "M", "I", "N", "A", "R", "_", "R", "E", "G", "I", "S", "T", "R", "O">> >>,
    << <<"T", "R", "A", "S", "L", "A", "D", "O", " ", "I", "N", "T", "E", "R", "N", "O">>, <<"E", "L", "I", "M", "I", "N", "A", "R", "_", "R", "E", "G", "I", "S", "T", "R", "O">> >>,
    << <<"P", "R", "E", "P", "O", "S", "I", "C", "I", "O", "N", "A", "M", "I", "E", "N", "T", "O">>, <<"E", "L", "I", "M", "I", "N", "A", "R", "_", "R", "E", "G", "I", "S", "T", "R", "O">> >>,
    << <<"S", "I", "N", "_", "E", "V", "E", "N", "T", "O">>, <<"S", "I", "N", " ", "E", "V", "E", "N", "T", "O">> >>,
    << <<"D", "E", "V", "O", "L", "V", "I", "O">>, <<"S", "I", "N", " ", "E", "V", "E", "N", "T", "O">> >>,
    << <<"R", "E", "F", "U", "G", "I", "O", " ", "S", "E", "N">>, <<"S", "I", "N", " ", "E", "V", "E", "N", "T", "O">> >>,
    << <<>>, <<"S", "I", "N", " ", "E", "V", "E", "N", "T", "O">> >>,
    << <<"S", "I", "N", " ", "E", "V", "E", "N", "T", "O">>, <<"S", "I", "N", " ", "E", "V", "E", "N", "T", "O">> >>
  >>

\* palabras_clave of estandarizar_evento_robusto (data_cleaner.py:820-828), in the order of the literal.
palabras_clave ==
  <<
    << <<"C", "O", "V", "I", "D">>, <<"C", "O", "V", "I", "D">> >>,
    << <<"I", "N", "C", "E", "N", "D", "I", "O">>, <<"I", "N", "C", "E", "N", "D", "I", "O">> >>,
    << <<"T", "O", "R", "M", "E", "N", "T", "A">>, <<"T", "O", "R", "M", "E", "N", "T", "A", " ", "S", "E", "V", "E", "R", "A">> >>,
    << <<"T", "E", "M", "P", "O", "R", "A", "L">>, <<"T", "O", "R", "M", "E", "N", "T", "A", " ", "S", "E", "V", "E", "R", "A">> >>,
    << <<"I", "N", "U", "N", "D", "A", "C", "I", "O", "N">>, <<"I", "N", "U", "N", "D", "A", "C", "I", "O", "N">> >>,
    << <<"S", "E", "Q", "U", "I", "A">>, <<"S", "E", "Q", "U", "I", "A">> >>,
    << <<"J", "A", "H", "O">>, <<"O", "P", "E", "R", "A", "T", "I", "V", "O", " ", "J", "A", "H", "O", "'", "I">> >>,
    << <<"N~", "E", "N~", "U", "A">>, <<"O", "P", "E", "R", "A", "T", "I", "V", "O", " ", "J", "A", "H", "O", "'", "I">> >>,
    << <<"O", "L", "L", "A">>, <<"O", "L", "L", "A", " ", "P", "O", "P", "U", "L", "A", "R">> >>,
    << <<"V", "U", "L", "N", "E", "R", "A", "B", "I", "L", "I", "D", "A", "D">>, <<"E", "X", "T", "R", "E", "M", "A", " ", "V", "U", "L", "N", "E", "R", "A", "B", "I", "L", "I", "D", "A", "D">> >>,
    << <<"C", "I", "D", "H">>, <<"C", ".", "I", ".", "D", ".", "H", ".">> >>,
    << <<"C", "o", "r", "t", "e">>, <<"C", ".", "I", ".", "D", ".", "H", ".">> >>,
    << <<"C", "O", "R", "T", "E">>, <<"C", ".", "I", ".", "D", ".", "H", ".">> >>
  >>

-----------------------------------------------------------------------------
(* Sequences and characters                                                 *)

Range(f) == {f[i] : i \in DOMAIN f}

Max(a, b) == IF a >= b THEN a ELSE b

\* the listing of a sequence backwards
Reverse(s) == [i \in 1..Len(s) |-> s[Len(s) + 1 - i]]

NONE == <<"<None>">>
NAN == <<"<NaN>">>

\* the text of a str given for reading, character by character
SIN_ESPECIFICAR == <<"S", "I", "N", " ", "E", "S", "P", "E", "C", "I", "F", "I", "C", "A", "R">>
SIN_EVENTO == <<"S", "I", "N", " ", "E", "V", "E", "N", "T", "O">>
ELIMINAR_REGISTRO == <<"E", "L", "I", "M", "I", "N", "A", "R", "_", "R", "E", "G", "I", "S", "T", "R", "O">>
SIN_INSUMOS == <<"S", "I", "N", "_", "I", "N", "S", "U", "M", "O", "S">>
CENTRAL == <<"C", "E", "N", "T", "R", "A", "L">>
CAPITAL == <<"C", "A", "P", "I", "T", "A", "L">>
SEQUIA == <<"S", "E", "Q", "U", "I", "A">>
INCENDIO == <<"I", "N", "C", "E", "N", "D", "I", "O">>
INUNDACION == <<"I", "N", "U", "N", "D", "A", "C", "I", "O", "N">>
TORMENTA_SEVERA == <<"T", "O", "R", "M", "E", "N", "T", "A", " ", "S", "E", "V", "E", "R", "A">>
EXTREMA_VULNERABILIDAD == <<"E", "X", "T", "R", "E", "M", "A", " ", "V", "U", "L", "N", "E", "R", "A", "B", "I", "L", "I", "D", "A", "D">>

\* str.upper() on one character: the lower-case characters and their capitals
Mayusculas ==
  [c \in {"a", "b", "c", "d", "e", "f", "g", "h", "i", "j", "k", "l", "m", "n", "o",
          "p", "q", "r", "s", "t", "u", "v", "w", "x", "y", "z", "a'", "e'", "i'",
          "o'", "u'", "a^", "e^", "i^", "o^", "u^", "n~"} |->
     CASE c = "a" -> "A" [] c = "b" -> "B" [] c = "c" -> "C" [] c = "d" -> "D"
       [] c = "e" -> "E" [] c = "f" -> "F" [] c = "g" -> "G" [] c = "h" -> "H"
       [] c = "i" -> "I" [] c = "j" -> "J" [] c = "k" -> "K" [] c = "l" -> "L"
       [] c = "m" -> "M" [] c = "n" -> "N" [] c = "o" -> "O" [] c = "p" -> "P"
       [] c = "q" -> "Q" [] c = "r" -> "R" [] c = "s" -> "S" [] c = "t" -> "T"
       [] c = "u" -> "U" [] c = "v" -> "V" [] c = "w" -> "W" [] c = "x" -> "X"
       [] c = "y" -> "Y" [] c = "z" -> "Z"
       [] c = "a'" -> "A'" [] c = "e'" -> "E'" [] c = "i'" -> "I'"
       [] c = "o'" -> "O'" [] c = "u'" -> "U'"
       [] c = "a^" -> "A^" [] c = "e^" -> "E^" [] c = "i^" -> "I^"
       [] c = "o^" -> "O^" [] c = "u^" -> "U^"
       [] c = "n~" -> "N~"] @@ <<>>

Mayuscula(c) == IF c \in DOMAIN Mayusculas THEN Mayusculas[c] ELSE c

\* unicodedata.normalize('NFKD', c) with the combining characters dropped: the
\* characters carrying a mark and their letters
SinMarcas ==
  [c \in {"A'", "A^", "E'", "E^", "I'", "I^", "O'", "O^", "U'", "U^", "N~",
          "a'", "a^", "e'", "e^", "i'", "i^", "o'", "o^", "u'", "u^", "n~"} |->
     CASE c \in {"A'", "A^"} -> "A" [] c \in {"E'", "E^"} -> "E"
       [] c \in {"I'", "I^"} -> "I" [] c \in {"O'", "O^"} -> "O"
       [] c \in {"U'", "U^"} -> "U" [] c = "N~" -> "N"
       [] c \in {"a'", "a^"} -> "a" [] c \in {"e'", "e^"} -> "e"
       [] c \in {"i'", "i^"} -> "i" [] c \in {"o'", "o^"} -> "o"
       [] c \in {"u'", "u^"} -> "u" [] c = "n~" -> "n"] @@ <<>>

SinMarca(c) == IF c \in DOMAIN SinMarcas THEN SinMarcas[c] ELSE c

\* the characters str.strip() removes and \s matches
EsEspacio(c) == c \in {" ", "\t"}

\* a sequence given as a function, with its elements computed
Lista(f) == f \o <<>>

\* Op at the value of e, computed before Op uses it: an assignment to a local
Sea(e, Op(_)) == CHOOSE r \in {Op(x) : x \in {e}} : TRUE

upper(s) == Lista([i \in 1..Len(s) |-> Mayuscula(s[i])])

RECURSIVE lstrip(_)
lstrip(s) == IF s # <<>> /\ EsEspacio(Head(s)) THEN lstrip(Tail(s)) ELSE s

RECURSIVE rstrip(_)
rstrip(s) ==
  IF s # <<>> /\ EsEspacio(s[Len(s)]) THEN rstrip(SubSeq(s, 1, Len(s) - 1)) ELSE s

strip(s) == rstrip(lstrip(s))

\* re.sub(r'\s+', ' ', s)
RECURSIVE colapsar_espacios(_)
colapsar_espacios(s) ==
  IF s = <<>> THEN <<>>
  ELSE IF EsEspacio(Head(s))
       THEN <<" ">> \o colapsar_espacios(lstrip(s))
       ELSE <<Head(s)>> \o colapsar_espacios(Tail(s))

\* sub in s, for two str
Contiene(s, sub) ==
  \E i \in 1..(Len(s) - Len(sub) + 1) : SubSeq(s, i, i + Len(sub) - 1) = sub

\* s.split(sep)[0] when sep in s
AntesDe(s, sep) ==
  LET i == CHOOSE k \in 1..(Len(s) - Len(sep) + 1) :
             /\ SubSeq(s, k, k + Len(sep) - 1) = sep
             /\ \A j \in 1..(k - 1) : SubSeq(s, j, j + Len(sep) - 1) # sep
  IN SubSeq(s, 1, i - 1)

\* s.replace(a, b) for one-character a and b
Reemplazar(s, a, b) == Lista([i \in 1..Len(s) |-> IF s[i] = a THEN b ELSE s[i]])

\* a dict built by assigning the pairs in order: the value of key k
Claves(pares) == {pares[i][1] : i \in DOMAIN pares}
Valor(pares, k) ==
  LET donde == {i \in DOMAIN pares : pares[i][1] = k}
  IN pares[CHOOSE i \in donde : \A j \in donde : j <= i][2]

-----------------------------------------------------------------------------
(* DataCleaner: text and number cleaning                                    *)

\* pd.isna(x) or x is None
EsNulo(x) == x \in {NONE, NAN}

\* str(x) of a text cell
str(x) == IF x = NAN THEN <<"n", "a", "n">> ELSE IF x = NONE THEN <<"N", "o", "n", "e">> ELSE x

\* _norm_str
norm_str(s) ==
  IF s = NONE THEN <<>>
  ELSE LET s2 == strip(upper(str(s)))
       IN colapsar_espacios(Lista([i \in 1..Len(s2) |-> SinMarca(s2[i])]))

limpiar_texto(texto) ==
  IF EsNulo(texto) \/ strip(str(texto)) = <<>> THEN SIN_ESPECIFICAR
  ELSE upper(strip(str(texto)))

\* ---- limpiar_numero ----

\* Values of a quantity cell.
NumNone == [t |-> "None", n |-> 0, d |-> 1, s |-> <<>>]
NumNpNan == [t |-> "np.nan", n |-> 0, d |-> 1, s |-> <<>>]      \* the object np.nan
NumNan == [t |-> "nan", n |-> 0, d |-> 1, s |-> <<>>]           \* any other NaN float
NumInf(sg) == [t |-> "inf", n |-> sg, d |-> 1, s |-> <<>>]      \* float('inf'), float('-inf')
NumObj == [t |-> "object", n |-> 0, d |-> 1, s |-> <<>>]        \* a list, a dict, ...
NumInt(n) == [t |-> "int", n |-> n, d |-> 1, s |-> <<>>]
NumFloat(n, d) == [t |-> "float", n |-> n, d |-> d, s |-> <<>>] \* the finite float n/d
NumStr(s) == [t |-> "str", n |-> 0, d |-> 1, s |-> s]

Digitos == {"0", "1", "2", "3", "4", "5", "6", "7", "8", "9"}

ValorDigito(c) ==
  CASE c = "0" -> 0 [] c = "1" -> 1 [] c = "2" -> 2 [] c = "3" -> 3 [] c = "4" -> 4
    [] c = "5" -> 5 [] c = "6" -> 6 [] c = "7" -> 7 [] c = "8" -> 8 [] c = "9" -> 9

\* the number a str of digits denotes
RECURSIVE ValorDigitos(_)
ValorDigitos(s) ==
  IF s = <<>> THEN 0
  ELSE 10 * ValorDigitos(SubSeq(s, 1, Len(s) - 1)) + ValorDigito(s[Len(s)])

RECURSIVE Pot10(_)
Pot10(k) == IF k = 0 THEN 1 ELSE 10 * Pot10(k - 1)

\* What float() makes of a value: a finite number sg * n / d, an infinity,
\* a NaN, or the exception it raises.  Of the str forms float() accepts, those
\* without exponent and without underscores are read; the cells drawn below
\* contain neither.
Flotante(c, sg, n, d) == [c |-> c, sg |-> sg, n |-> n, d |-> d]

float_de_str(s) ==
  LET u == strip(s)
      conSigno == u # <<>> /\ Head(u) \in {"-", "+"}
      sg == IF u # <<>> /\ Head(u) = "-" THEN -1 ELSE 1
      cuerpo == IF conSigno THEN Tail(u) ELSE u
      puntos == {i \in 1..Len(cuerpo) : cuerpo[i] = "."}
      cifras == {i \in 1..Len(cuerpo) : cuerpo[i] \in Digitos}
      p == IF puntos = {} THEN Len(cuerpo) + 1 ELSE CHOOSE i \in puntos : TRUE
      sinPunto == SubSeq(cuerpo, 1, p - 1) \o SubSeq(cuerpo, p + 1, Len(cuerpo))
  IN IF upper(cuerpo) \in {<<"I", "N", "F">>, <<"I", "N", "F", "I", "N", "I", "T", "Y">>}
       THEN Flotante("inf", sg, 0, 1)
     ELSE IF upper(cuerpo) = <<"N", "A", "N">>
       THEN Flotante("nan", sg, 0, 1)
     ELSE IF /\ cifras # {}
             /\ Cardinality(puntos) <= 1
             /\ Cardinality(puntos) + Cardinality(cifras) = Len(cuerpo)
       THEN Flotante("finito", sg, ValorDigitos(sinPunto),
                     Pot10(IF puntos = {} THEN 0 ELSE Len(cuerpo) - p))
     ELSE Flotante("ValueError", 1, 0, 1)

float_de(value) ==
  CASE value.t = "str" -> float_de_str(value.s)
    [] value.t = "int" ->
         Flotante("finito", IF value.n < 0 THEN -1 ELSE 1,
                  IF value.n < 0 THEN -value.n ELSE value.n, 1)
    [] value.t = "float" ->
         Flotante("finito", IF value.n < 0 THEN -1 ELSE 1,
                  IF value.n < 0 THEN -value.n ELSE value.n, value.d)
    [] value.t = "inf" -> Flotante("inf", value.n, 0, 1)
    [] value.t \in {"nan", "np.nan"} -> Flotante("nan", 1, 0, 1)
    [] OTHER -> Flotante("TypeError", 1, 0, 1)

\* int(f): truncation toward zero; int(inf) raises OverflowError, int(nan) ValueError
int_de(f) ==
  CASE f.c = "finito" -> [exc |-> "", v |-> f.sg * (f.n \div f.d)]
    [] f.c = "inf" -> [exc |-> "OverflowError", v |-> 0]
    [] f.c = "nan" -> [exc |-> "ValueError", v |-> 0]
    [] OTHER -> [exc |-> f.c, v |-> 0]

\* limpiar_numero(value): [exc |-> "", v |-> the int returned], or the
\* exception that leaves the function
limpiar_numero(value) ==
  LET value1 == IF value.t = "str" THEN NumStr(Reemplazar(value.s, ",", ".")) ELSE value
      vacio == value1.t \in {"None", "np.nan"} \/ (value1.t = "str" /\ value1.s = <<>>)
      r == IF vacio THEN [exc |-> "", v |-> 0] ELSE int_de(float_de(value1))
  IN IF r.exc \in {"ValueError", "TypeError"} THEN [exc |-> "", v |-> 0] ELSE r

-----------------------------------------------------------------------------
(* Similarity and best match                                                *)

\* One row of the longest-common-subsequence table: fila[j + 1] is the length
\* for the characters consumed so far of a and the first j characters of b.
RECURSIVE LcsFila(_, _, _, _)
LcsFila(previa, x, b, fila) ==
  IF Len(fila) = Len(b) + 1 THEN fila
  ELSE LET j == Len(fila)
       IN LcsFila(previa, x, b,
                  Append(fila, IF x = b[j] THEN previa[j] + 1
                               ELSE Max(previa[j + 1], fila[j])))

RECURSIVE LcsTabla(_, _, _)
LcsTabla(a, b, previa) ==
  IF a = <<>> THEN previa[Len(b) + 1]
  ELSE LcsTabla(Tail(a), b, LcsFila(previa, Head(a), b, <<0>>))

Lcs(a, b) == LcsTabla(a, b, Lista([j \in 1..(Len(b) + 1) |-> 0]))

\* Levenshtein.ratio(a, b) = (len(a) + len(b) - dist) / (len(a) + len(b)) with
\* dist the edit distance in which a substitution costs 2, which is
\* 2 * lcs / (len(a) + len(b)); kept as the fraction <<numerator, denominator>>.
ratio(a, b) == IF Len(a) + Len(b) = 0 THEN <<1, 1>> ELSE <<2 * Lcs(a, b), Len(a) + Len(b)>>

\* _calcular_similitud: the cache only stores what the computation returns
calcular_similitud(texto1, texto2) == ratio(norm_str(texto1), norm_str(texto2))

\* comparisons of scores; a threshold is given in hundredths
Mayor(p, q) == p[1] * q[2] > q[1] * p[2]
AlMenos(p, umbral) == p[1] * 100 >= umbral * p[2]

\* A variant of the scoring loop that stops at the first candidate whose
\* score is at least umbral.
PrimeraApta(texto, opciones, umbral) ==
  LET aptas == {i \in DOMAIN opciones :
                  AlMenos(calcular_similitud(texto, opciones[i]), umbral)}
  IN IF aptas = {} THEN NONE ELSE opciones[CHOOSE i \in aptas : \A j \in aptas : i <= j]

\* The scoring loop over opciones in order. It replaces the best candidate
\* only by one whose score is strictly greater than the best so far (0.0 at
\* the start) and at least umbral, so it ends with the first candidate, in
\* the order of opciones, that has the greatest score among those; NONE when
\* no candidate qualifies.
MejorPuntuada(texto, opciones, umbral) ==
  LET puntajes == Lista([i \in DOMAIN opciones |-> calcular_similitud(texto, opciones[i])])
      aptas == {i \in DOMAIN opciones :
                  Mayor(puntajes[i], <<0, 1>>) /\ AlMenos(puntajes[i], umbral)}
  IN IF aptas = {} THEN NONE
     ELSE opciones[CHOOSE i \in aptas :
                     \A j \in aptas : IF j < i THEN Mayor(puntajes[i], puntajes[j])
                                                ELSE ~Mayor(puntajes[j], puntajes[i])]

\* _buscar_mejor_coincidencia(texto, opciones, umbral): opciones is the
\* collection in the order the call enumerates it, umbral is in hundredths;
\* NONE stands for None.
buscar_mejor_coincidencia(texto, opciones, umbral) ==
  IF texto \in {NONE, <<>>} \/ opciones = <<>> THEN NONE
  ELSE
    Sea(norm_str(texto), LAMBDA texto_norm :
      LET exactas == {i \in 1..Len(opciones) : norm_str(opciones[i]) = texto_norm}
      IN IF exactas # {}
         THEN opciones[CHOOSE i \in exactas : \A j \in exactas : i <= j]
         ELSE MejorPuntuada(texto, opciones, umbral))


-----------------------------------------------------------------------------
(* Derived dictionaries of DataCleaner.__init__                             *)

\* the departments, in the order of departamento_orden.keys()
departamentos == Lista([i \in DOMAIN departamento_orden |-> departamento_orden[i][1]])

\* concatenation of the elements of a sequence of sequences
RECURSIVE Aplanar(_)
Aplanar(ss) == IF ss = <<>> THEN <<>> ELSE Head(ss) \o Aplanar(Tail(ss))

\* iteration over a set whose literal lists it as lista, in a run with hash seed sem
Iterar(lista, sem) == IF sem = 0 THEN lista ELSE Lista(Reverse(lista))

\* DISTRITOS_POR_DEPARTAMENTO[depto], as listed
distritos_de(depto) == Valor(DISTRITOS_POR_DEPARTAMENTO, depto)

\* todos_distritos_validos, listed department by department
todos_distritos_validos ==
  Aplanar(Lista([i \in DOMAIN DISTRITOS_POR_DEPARTAMENTO |->
                   DISTRITOS_POR_DEPARTAMENTO[i][2]]))

\* distrito_a_departamento: one pair per district
distrito_a_departamento ==
  Aplanar(Lista([i \in DOMAIN DISTRITOS_POR_DEPARTAMENTO |->
             Lista([j \in DOMAIN DISTRITOS_POR_DEPARTAMENTO[i][2] |->
                      <<DISTRITOS_POR_DEPARTAMENTO[i][2][j],
                        DISTRITOS_POR_DEPARTAMENTO[i][1]>>])]))

\* the items of the dict built by assigning the pairs in order: each key once,
\* where it was first inserted, with the value assigned last
RECURSIVE DictParesDesde(_, _)
DictParesDesde(pares, i) ==
  IF i > Len(pares) THEN <<>>
  ELSE IF \E j \in 1..(i - 1) : pares[j][1] = pares[i][1]
       THEN DictParesDesde(pares, i + 1)
       ELSE << <<pares[i][1], Valor(pares, pares[i][1])>> >> \o DictParesDesde(pares, i + 1)
DictPares(pares) == DictParesDesde(pares, 1)

\* a dict as a function, and the dict with its keys normalized
Dict(pares) == [k \in Claves(pares) |-> Valor(pares, k)] @@ <<>>
NormClaves(pares) == Lista([i \in DOMAIN pares |-> <<norm_str(pares[i][1]), pares[i][2]>>])

estandarizacion_dept_dict == Dict(estandarizacion_dept)
estandarizacion_dept_norm == Dict(NormClaves(estandarizacion_dept))
\* A variant of distrito_a_departamento_norm with the two roles exchanged:
\* the department as key, one of its districts as value.
departamento_a_distrito_norm ==
  Dict(NormClaves(Lista([i \in DOMAIN distrito_a_departamento |->
                           <<distrito_a_departamento[i][2], distrito_a_departamento[i][1]>>])))

distrito_a_departamento_norm == Dict(NormClaves(distrito_a_departamento))
estandarizacion_distritos_norm == Dict(NormClaves(estandarizacion_distritos))
estandarizacion_eventos_dict == Dict(estandarizacion_eventos)

-----------------------------------------------------------------------------
(* Locality registry                                                        *)

\* _cargar_barrios_desde_json: archivo is the content of barrios_por_distrito.json,
\* a sequence of <<district, list of localities>>, or NONE when no file is found;
\* the result is the dict with every name normalized.
cargar_barrios_desde_json(archivo) ==
  IF archivo = NONE THEN <<>>
  ELSE DictPares(Lista([i \in DOMAIN archivo |->
                          <<norm_str(archivo[i][1]),
                            Lista([j \in DOMAIN archivo[i][2] |->
                                     norm_str(archivo[i][2][j])])>>]))

\* _es_localidad_valida_en_json
es_localidad_valida_en_json(barrios, distrito, localidad) ==
  /\ barrios # <<>>
  /\ norm_str(distrito) \in Claves(barrios)
  /\ norm_str(localidad) \in Range(Valor(barrios, norm_str(distrito)))

\* _buscar_localidad_en_json
buscar_localidad_en_json(barrios, distrito, localidad, umbral) ==
  IF barrios = <<>> \/ norm_str(distrito) \notin Claves(barrios) THEN NONE
  ELSE buscar_mejor_coincidencia(localidad, Valor(barrios, norm_str(distrito)), umbral)

\* _buscar_localidad_en_todos_distritos: the locality found (the district found
\* with it is not used by any caller)
buscar_localidad_en_todos_distritos(barrios, localidad, umbral) ==
  IF barrios = <<>> THEN NONE
  ELSE buscar_mejor_coincidencia(
         localidad, Aplanar(Lista([i \in DOMAIN barrios |-> barrios[i][2]])), umbral)

-----------------------------------------------------------------------------
(* Geographic resolution                                                    *)

separadores == << <<" ", "-", " ">>, <<" ", "/", " ">>, <<",", " ">>, <<" ", "Y", " ">> >>

\* bool(x) of a text cell: None and '' are false, NaN and any other str true
Verdadero(x) == x # NONE /\ x # <<>>

\* A variant of estandarizar_departamento_robusto without the default: a text
\* nothing matches is returned cleaned, as the district resolver does.
estandarizar_departamento_sin_defecto(departamento) ==
  IF EsNulo(departamento) THEN CENTRAL
  ELSE
    Sea(limpiar_texto(departamento), LAMBDA depto_limpio :
    Sea(norm_str(depto_limpio), LAMBDA depto_norm :
      LET contenidos == {i \in DOMAIN departamentos :
                           Contiene(depto_norm, norm_str(departamentos[i]))}
      IN IF depto_norm \in DOMAIN distrito_a_departamento_norm
           THEN distrito_a_departamento_norm[depto_norm]
         ELSE IF depto_norm \in DOMAIN estandarizacion_dept_norm
           THEN estandarizacion_dept_norm[depto_norm]
         ELSE IF contenidos # {}
           THEN departamentos[CHOOSE k \in contenidos : \A h \in contenidos : k <= h]
         ELSE depto_limpio))

\* A variant of estandarizar_departamento_robusto without the step that looks
\* up the part before a separator.
estandarizar_departamento_sin_separadores(departamento) ==
  IF EsNulo(departamento) THEN CENTRAL
  ELSE
    Sea(limpiar_texto(departamento), LAMBDA depto_limpio :
    Sea(norm_str(depto_limpio), LAMBDA depto_norm :
      LET contenidos == {i \in DOMAIN departamentos :
                           Contiene(depto_norm, norm_str(departamentos[i]))}
      IN IF depto_norm \in DOMAIN distrito_a_departamento_norm
           THEN distrito_a_departamento_norm[depto_norm]
         ELSE IF depto_norm \in DOMAIN estandarizacion_dept_norm
           THEN estandarizacion_dept_norm[depto_norm]
         ELSE IF contenidos # {}
           THEN departamentos[CHOOSE k \in contenidos : \A h \in contenidos : k <= h]
         ELSE CENTRAL))

estandarizar_departamento_robusto(departamento) ==
  IF EsNulo(departamento) THEN CENTRAL
  ELSE
    Sea(limpiar_texto(departamento), LAMBDA depto_limpio :
    Sea(norm_str(depto_limpio), LAMBDA depto_norm :
      LET \* separators whose first part is a key of estandarizacion_dept
          conParte == {i \in DOMAIN separadores :
                         /\ Contiene(depto_limpio, separadores[i])
                         /\ strip(AntesDe(depto_limpio, separadores[i]))
                              \in DOMAIN estandarizacion_dept_dict}
          contenidos == {i \in DOMAIN departamentos :
                           Contiene(depto_norm, norm_str(departamentos[i]))}
      IN IF depto_norm \in DOMAIN distrito_a_departamento_norm
           THEN distrito_a_departamento_norm[depto_norm]
         ELSE IF depto_norm \in DOMAIN estandarizacion_dept_norm
           THEN estandarizacion_dept_norm[depto_norm]
         ELSE IF conParte # {}
           THEN LET i == CHOOSE k \in conParte : \A h \in conParte : k <= h
                IN estandarizacion_dept_dict[strip(AntesDe(depto_limpio, separadores[i]))]
         ELSE IF contenidos # {}
           THEN departamentos[CHOOSE k \in contenidos : \A h \in contenidos : k <= h]
         ELSE CENTRAL))

\* A variant of the candidates searched first that never restricts them to
\* a department.
opciones_sin_departamento(departamento, sem) == Iterar(todos_distritos_validos, sem)

\* the candidates estandarizar_distrito_robusto searches first, in a run with
\* hash seed sem
opciones_busqueda(departamento, sem) ==
  IF Verdadero(departamento)
  THEN Sea(estandarizar_departamento_robusto(departamento), LAMBDA depto_estandar :
         IF depto_estandar \in Claves(DISTRITOS_POR_DEPARTAMENTO)
         THEN Iterar(distritos_de(depto_estandar), sem)
         ELSE Iterar(todos_distritos_validos, sem))
  ELSE Iterar(todos_distritos_validos, sem)

\* estandarizar_distrito_robusto(distrito, departamento) in a run with hash seed sem
estandarizar_distrito_robusto(distrito, departamento, sem) ==
  IF EsNulo(distrito) THEN SIN_ESPECIFICAR
  ELSE
    Sea(limpiar_texto(distrito), LAMBDA distrito_limpio :
    Sea(norm_str(distrito_limpio), LAMBDA distrito_norm :
      IF distrito_limpio = SIN_ESPECIFICAR THEN distrito_limpio
      ELSE IF distrito_norm \in DOMAIN estandarizacion_distritos_norm
        THEN estandarizacion_distritos_norm[distrito_norm]
      ELSE
        Sea(buscar_mejor_coincidencia(distrito_limpio,
                                      opciones_busqueda(departamento, sem), 60),
            LAMBDA mejor_coincidencia :
          IF mejor_coincidencia # NONE THEN mejor_coincidencia
          ELSE IF Verdadero(departamento)
            THEN Sea(buscar_mejor_coincidencia(
                       distrito_limpio, Iterar(todos_distritos_validos, sem), 60),
                     LAMBDA en_todos :
                   IF en_todos # NONE THEN en_todos ELSE distrito_limpio)
          ELSE distrito_limpio)))

\* A variant of corregir_distrito_en_localidad that moves the text of the
\* locality field, not the district it matches, into the district field.
corregir_distrito_con_texto(localidad, distrito_actual, sem) ==
  IF EsNulo(localidad) THEN <<localidad, distrito_actual>>
  ELSE
    Sea(limpiar_texto(localidad), LAMBDA localidad_limpia :
      IF localidad_limpia = SIN_ESPECIFICAR THEN <<localidad_limpia, distrito_actual>>
      ELSE IF buscar_mejor_coincidencia(
                localidad_limpia, Iterar(todos_distritos_validos, sem), 80) # NONE
        THEN IF distrito_actual \in {SIN_ESPECIFICAR, <<>>}
             THEN <<SIN_ESPECIFICAR, localidad_limpia>>
             ELSE <<SIN_ESPECIFICAR, distrito_actual>>
      ELSE <<localidad_limpia, distrito_actual>>)

\* corregir_distrito_en_localidad: <<localidad, distrito>>
corregir_distrito_en_localidad(localidad, distrito_actual, sem) ==
  IF EsNulo(localidad) THEN <<localidad, distrito_actual>>
  ELSE
    Sea(limpiar_texto(localidad), LAMBDA localidad_limpia :
      IF localidad_limpia = SIN_ESPECIFICAR THEN <<localidad_limpia, distrito_actual>>
      ELSE
        Sea(buscar_mejor_coincidencia(
              localidad_limpia, Iterar(todos_distritos_validos, sem), 80),
            LAMBDA distrito_en_localidad :
          IF distrito_en_localidad # NONE
          THEN IF distrito_actual \in {SIN_ESPECIFICAR, <<>>}
               THEN <<SIN_ESPECIFICAR, distrito_en_localidad>>
               ELSE <<SIN_ESPECIFICAR, distrito_actual>>
          ELSE <<localidad_limpia, distrito_actual>>))

palabras_clave_localidad ==
  << <<"B", "A", "R", "R", "I", "O">>, <<"C", "O", "L", "O", "N", "I", "A">>,
     <<"C", "O", "M", "U", "N", "I", "D", "A", "D">>, <<"A", "L", "D", "E", "A">>,
     <<"A", "S", "E", "N", "T", "A", "M", "I", "E", "N", "T", "O">>,
     <<"C", "A", "N", "T", "O", "N">> >>

\* A variant of estandarizar_localidad_robusta without registry and without
\* heuristics: every text is kept cleaned.
estandarizar_localidad_sin_heuristicas(barrios, localidad, distrito_estandarizado) ==
  IF EsNulo(localidad) THEN SIN_ESPECIFICAR ELSE limpiar_texto(localidad)

\* A variant of estandarizar_localidad_robusta that never looks at the
\* registry.
estandarizar_localidad_sin_registro(barrios, localidad, distrito_estandarizado) ==
  IF EsNulo(localidad) THEN SIN_ESPECIFICAR
  ELSE
    Sea(limpiar_texto(localidad), LAMBDA localidad_limpia :
      IF localidad_limpia = SIN_ESPECIFICAR THEN localidad_limpia
      ELSE IF localidad_limpia = distrito_estandarizado THEN SIN_ESPECIFICAR
      ELSE IF \E i \in DOMAIN palabras_clave_localidad :
                Contiene(localidad_limpia, palabras_clave_localidad[i])
        THEN localidad_limpia
      ELSE IF Len(localidad_limpia) < 3 THEN SIN_ESPECIFICAR
      ELSE localidad_limpia)

\* estandarizar_localidad_robusta with the registry barrios
estandarizar_localidad_robusta(barrios, localidad, distrito_estandarizado) ==
  IF EsNulo(localidad) THEN SIN_ESPECIFICAR
  ELSE
    Sea(limpiar_texto(localidad), LAMBDA localidad_limpia :
      IF localidad_limpia = SIN_ESPECIFICAR THEN localidad_limpia
      ELSE IF localidad_limpia = distrito_estandarizado THEN SIN_ESPECIFICAR
      ELSE IF es_localidad_valida_en_json(barrios, distrito_estandarizado, localidad_limpia)
        THEN localidad_limpia
      ELSE
        Sea(buscar_localidad_en_json(barrios, distrito_estandarizado, localidad_limpia, 85),
            LAMBDA correccion_local :
          IF correccion_local # NONE THEN correccion_local
          ELSE
            Sea(IF Len(localidad_limpia) > 3
                THEN buscar_localidad_en_todos_distritos(barrios, localidad_limpia, 80)
                ELSE NONE,
                LAMBDA correccion_global :
              IF correccion_global # NONE THEN correccion_global
              ELSE IF \E i \in DOMAIN palabras_clave_localidad :
                        Contiene(localidad_limpia, palabras_clave_localidad[i])
                THEN localidad_limpia
              ELSE IF Len(localidad_limpia) < 3 THEN SIN_ESPECIFICAR
              ELSE localidad_limpia)))

-----------------------------------------------------------------------------
(* Event categorization and inference                                       *)

\* A variant of estandarizar_evento_robusto that looks for the keywords
\* before the dictionary.
estandarizar_evento_palabras_primero(evento) ==
  IF EsNulo(evento) THEN SIN_EVENTO
  ELSE
    Sea(limpiar_texto(evento), LAMBDA evento_limpio :
      LET presentes == {i \in DOMAIN palabras_clave :
                          Contiene(evento_limpio, palabras_clave[i][1])}
      IN IF presentes # {}
           THEN palabras_clave[CHOOSE k \in presentes : \A h \in presentes : k <= h][2]
         ELSE IF evento_limpio \in DOMAIN estandarizacion_eventos_dict
           THEN estandarizacion_eventos_dict[evento_limpio]
         ELSE SIN_EVENTO)

estandarizar_evento_robusto(evento) ==
  IF EsNulo(evento) THEN SIN_EVENTO
  ELSE
    Sea(limpiar_texto(evento), LAMBDA evento_limpio :
      LET presentes == {i \in DOMAIN palabras_clave :
                          Contiene(evento_limpio, palabras_clave[i][1])}
      IN IF evento_limpio \in DOMAIN estandarizacion_eventos_dict
           THEN estandarizacion_eventos_dict[evento_limpio]
         ELSE IF presentes # {}
           THEN palabras_clave[CHOOSE k \in presentes : \A h \in presentes : k <= h][2]
         ELSE SIN_EVENTO)

\* row.get(campo, defecto) on a row given as a function of the column name
Get(row, campo, defecto) == IF campo \in DOMAIN row THEN row[campo] ELSE defecto

departamentos_secos ==
  { <<"B", "O", "Q", "U", "E", "R", "O", "N">>,
    <<"A", "L", "T", "O", " ", "P", "A", "R", "A", "G", "U", "A", "Y">>,
    <<"P", "D", "T", "E", ".", " ", "H", "A", "Y", "E", "S">> }

materiales_no_kits_cols ==
  <<"CHAPA FIBROCEMENTO", "CHAPA_FIBROCEMENTO", "CHAPA ZINC", "CHAPA_ZINC",
    "COLCHONES", "FRAZADAS", "TERCIADAS", "PUNTALES", "CARPAS PLASTICAS", "CARPAS_PLASTICAS">>

RECURSIVE Suma(_)
Suma(s) == IF s = <<>> THEN 0 ELSE Head(s) + Suma(Tail(s))

OverflowError == <<"<OverflowError>">>

\* A variant that infers nothing: the event of the row as it is.
post_process_sin_inferencia(row) == Get(row, "EVENTO", SIN_EVENTO)

\* A variant that puts the rule of the dry departments before the test of the
\* event: it is applied to every row.
post_process_secos_primero(row) ==
  IF upper(Get(row, "DEPARTAMENTO", <<>>)) \in departamentos_secos THEN SEQUIA
  ELSE Get(row, "EVENTO", SIN_EVENTO)

\* post_process_eventos_with_aids(row): the event returned, or OverflowError
\* when a limpiar_numero call of the function raises it
post_process_eventos_with_aids(row) ==
  LET evento == Get(row, "EVENTO", SIN_EVENTO)
      departamento == upper(Get(row, "DEPARTAMENTO", <<>>))
      celdas_kits == <<Get(row, "KIT B", Get(row, "KIT_B", NumInt(0))),
                       Get(row, "KIT A", Get(row, "KIT_A", NumInt(0)))>>
      celdas_chapas == <<Get(row, "CHAPA ZINC", Get(row, "CHAPA_ZINC", NumInt(0))),
                         Get(row, "CHAPA FIBROCEMENTO",
                             Get(row, "CHAPA_FIBROCEMENTO", NumInt(0)))>>
      celdas_materiales == [i \in DOMAIN materiales_no_kits_cols |->
                              Get(row, materiales_no_kits_cols[i], NumInt(0))]
      celdas == celdas_kits \o celdas_chapas \o celdas_materiales
      kit_b == limpiar_numero(celdas_kits[1]).v
      kit_a == limpiar_numero(celdas_kits[2]).v
      total_kits == kit_b + kit_a
      chapa_zinc == limpiar_numero(celdas_chapas[1]).v
      chapa_fibrocemento == limpiar_numero(celdas_chapas[2]).v
      materiales == Suma([i \in DOMAIN celdas_materiales |->
                            limpiar_numero(celdas_materiales[i]).v])
      total_insumos == total_kits + materiales
  IN IF evento = ELIMINAR_REGISTRO THEN ELIMINAR_REGISTRO
     ELSE IF evento \in {SIN_EVENTO, <<>>, NONE}
       THEN IF departamento \in departamentos_secos THEN SEQUIA
            ELSE IF \E i \in DOMAIN celdas : limpiar_numero(celdas[i]).exc # ""
              THEN OverflowError
            ELSE IF total_kits < 10 /\ total_kits > 0 /\ materiales > 0 THEN INCENDIO
            ELSE IF departamento = CAPITAL /\ total_kits > 0 /\ materiales = 0 THEN INUNDACION
            ELSE IF chapa_zinc > 0 /\ total_kits = 0 /\ chapa_fibrocemento = 0
              THEN TORMENTA_SEVERA
            ELSE IF chapa_fibrocemento > 0 /\ total_kits = 0 /\ chapa_zinc = 0
              THEN INUNDACION
            ELSE IF total_kits > 0 THEN EXTREMA_VULNERABILIDAD
            ELSE IF total_insumos = 0 THEN SIN_INSUMOS
            ELSE EXTREMA_VULNERABILIDAD
     ELSE evento

-----------------------------------------------------------------------------
(* The pipeline: run_complete_correction_pipeline                           *)

\* A DataFrame is a function from the index labels to the rows; a row is a
\* record of cells.  A FECHA cell is a date pd.to_datetime reads, with its
\* year a and month m, or a value it turns into NaT.
Fecha(a, m) == [t |-> "fecha", a |-> a, m |-> m]
FechaInvalida == [t |-> "NaT", a |-> 0, m |-> 0]

insumos_cols ==
  <<"KIT_A", "KIT_B", "CHAPA_FIBROCEMENTO", "CHAPA_ZINC", "COLCHONES", "FRAZADAS",
    "TERCIADAS", "PUNTALES", "CARPAS_PLASTICAS">>

\* final_col.replace('_', ' ')
ConEspacio(col) ==
  CASE col = "KIT_A" -> "KIT A" [] col = "KIT_B" -> "KIT B"
    [] col = "CHAPA_FIBROCEMENTO" -> "CHAPA FIBROCEMENTO"
    [] col = "CHAPA_ZINC" -> "CHAPA ZINC"
    [] col = "CARPAS_PLASTICAS" -> "CARPAS PLASTICAS"
    [] OTHER -> col

\* the cell limpiar_numero leaves in a column it is applied to
Limpia(celda) == NumInt(limpiar_numero(celda).v)

\* df[insumo_cols].sum(axis=1) of a row
total_insumos(row) ==
  Suma([i \in DOMAIN insumos_cols |-> limpiar_numero(row[insumos_cols[i]]).v])

\* normalize_locations on one row: steps 1, 2, 2b, 3 and 4, each on the
\* values the step before it stored
normalizar_fila(row, barrios, sem) ==
  Sea(estandarizar_departamento_robusto(row.DEPARTAMENTO), LAMBDA depto :
  Sea(estandarizar_distrito_robusto(row.DISTRITO, depto, sem), LAMBDA distrito :
  Sea(norm_str(distrito), LAMBDA distrito_norm :
  Sea(IF distrito_norm \in DOMAIN distrito_a_departamento_norm
      THEN distrito_a_departamento_norm[distrito_norm]
      ELSE depto, LAMBDA depto_corregido :
  Sea(corregir_distrito_en_localidad(row.LOCALIDAD, distrito, sem), LAMBDA par :
  Sea(estandarizar_localidad_robusta(barrios, par[1], par[2]), LAMBDA localidad :
    [row EXCEPT !.DEPARTAMENTO = depto_corregido,
                !.DISTRITO = par[2],
                !.LOCALIDAD = localidad]))))))

\* normalize_locations: every step works row by row; ubicaciones_de, when
\* given, holds the rows already worked out
normalize_locations(d, barrios, sem, ubicaciones_de) ==
  [idx \in DOMAIN d |->
     IF <<d[idx], barrios, sem>> \in DOMAIN ubicaciones_de
     THEN ubicaciones_de[d[idx], barrios, sem]
     ELSE normalizar_fila(d[idx], barrios, sem)]

\* temp_row of the inference loop: the row, with the cleaned quantity under
\* the name of each column written with a space
temp_row(row) ==
  [c \in DOMAIN row \cup {ConEspacio(insumos_cols[i]) : i \in DOMAIN insumos_cols} |->
     IF \E i \in DOMAIN insumos_cols : ConEspacio(insumos_cols[i]) = c
     THEN LET i == CHOOSE k \in DOMAIN insumos_cols : ConEspacio(insumos_cols[k]) = c
          IN Limpia(row[insumos_cols[i]])
     ELSE row[c]]

\* the quantity columns after df[col].apply(self.limpiar_numero)
limpiar_insumos(row) ==
  [c \in DOMAIN row |->
     IF c \in Range(insumos_cols) THEN Limpia(row[c]) ELSE row[c]]

\* Variants of step 4, to tell the filter of the code from its neighbours:
\* one that asks for more than one item, one that forgets the discard sentinel.
filtrar_mas_de_uno(d) ==
  LET quedan == {idx \in DOMAIN d :
                   /\ d[idx].EVENTO # ELIMINAR_REGISTRO
                   /\ total_insumos(d[idx]) > 1}
  IN [idx \in quedan |-> limpiar_insumos(d[idx])]

filtrar_sin_descarte(d) ==
  LET quedan == {idx \in DOMAIN d : total_insumos(d[idx]) > 0}
  IN [idx \in quedan |-> limpiar_insumos(d[idx])]

\* step 4 of the pipeline: the rows kept
filtrar(d) ==
  LET quedan == {idx \in DOMAIN d :
                   /\ d[idx].EVENTO # ELIMINAR_REGISTRO
                   /\ total_insumos(d[idx]) > 0}
  IN [idx \in quedan |-> limpiar_insumos(d[idx])]

\* df['DEPARTAMENTO'].map(self.departamento_orden).fillna(0)
orden_departamento(depto) ==
  IF depto \in Claves(departamento_orden) THEN Valor(departamento_orden, depto) ELSE 0

\* feature_engineering_basico: rows without a date, or with a year up to 1900,
\* are dropped; the others get AÑO (ANIO), MES and ORDEN_DEPARTAMENTO.  The
\* batches drawn have no AÑO and MES columns to rebuild a date from.
feature_engineering_basico(d) ==
  LET quedan == {idx \in DOMAIN d : d[idx].FECHA.t = "fecha" /\ d[idx].FECHA.a > 1900}
  IN [idx \in quedan |->
        [ANIO |-> NumInt(d[idx].FECHA.a), MES |-> NumInt(d[idx].FECHA.m),
         ORDEN_DEPARTAMENTO |-> NumInt(orden_departamento(d[idx].DEPARTAMENTO))]
        @@ d[idx]]

columnas_texto == {"LOCALIDAD", "DISTRITO", "DEPARTAMENTO", "EVENTO"}

\* estandarizacion_final_columnas
estandarizacion_final_columnas(d) ==
  [idx \in DOMAIN d |->
     [c \in DOMAIN d[idx] |->
        IF c = "FECHA" THEN d[idx][c]
        ELSE IF c \in columnas_texto THEN limpiar_texto(d[idx][c])
        ELSE Limpia(d[idx][c])]]

-----------------------------------------------------------------------------
(* Bounds and inputs                                                        *)

MaxLote == 2            \* rows of a batch
MaxLargoNumero == 3     \* characters of a quantity written as text
MaxCantidad == 3        \* largest magnitude of a numeric quantity cell
MaxOpciones == 3        \* candidates of a best-match call

Semillas == {0, 1}

\* a str written in full
T_Caaguazu == <<"C", "a", "a", "g", "u", "a", "z", "u">>
T_CnelOviedo == <<"C", "n", "e", "l", " ", "O", "v", "i", "e", "d", "o">>
T_Coronel == <<"C", "O", "R", "O", "N", "E", "L">>
T_SanPedro == <<"S", "A", "N", " ", "P", "E", "D", "R", "O">>
T_Patricio == <<"P", "a", "t", "r", "i", "c", "i", "o">>
T_Luque == <<" ", "l", "u", "q", "u", "e", " ">>
T_Boqueron == <<"B", "O", "Q", "U", "E", "R", "O'", "N">>
T_Asuncion == <<"A", "s", "u", "n", "c", "i", "o'", "n">>
T_Km12 == <<"k", "m", " ", "1", "2">>
T_Zzz == <<"Z", "Z", "Z", " ", "Q", "Q">>
T_BarrioObrero == <<"B", "a", "r", "r", "i", "o", " ", "O", "b", "r", "e", "r", "o">>
T_Sajonia == <<"S", "A", "J", "O", "N", "I", "A">>
T_Sajonai == <<"S", "a", "j", "o", "n", "i", "a", "s">>
T_OllaPop == <<"O", "l", "l", "a", " ", "p", "o", "p", ".">>
T_Prepos == <<"P", "R", "E", "P", "O", "S", ".">>
T_Incendio == <<"i", "n", "c", "e", "n", "d", "i", "o">>
T_Otro == <<"v", "i", "s", "i", "t", "a">>

\* barrios_por_distrito.json: no file, or a file with two districts
ArchivosBarrios ==
  { NONE,
    << << <<"A", "s", "u", "n", "c", "i", "o'", "n">>,
          << T_Sajonia, <<"S", "a", "n", " ", "R", "o", "q", "u", "e">>, T_BarrioObrero >> >>,
       << <<"L", "U", "Q", "U", "E">>,
          << <<"M", "a", "r", "a", "m", "b", "u", "r", "e'">>, <<"I", "t", "a", "p", "u", "a", "m", "i">> >> >> >> }

\* quantity cells
C(n) == NumInt(n)
Ceros == [i \in 1..9 |-> C(0)]
\* a row; cant lists the nine quantities in the order of insumos_cols
Registro(fecha, depto, distrito, localidad, evento, cant) ==
  [FECHA |-> fecha, DEPARTAMENTO |-> depto, DISTRITO |-> distrito,
   LOCALIDAD |-> localidad, EVENTO |-> evento,
   KIT_A |-> cant[1], KIT_B |-> cant[2], CHAPA_FIBROCEMENTO |-> cant[3],
   CHAPA_ZINC |-> cant[4], COLCHONES |-> cant[5], FRAZADAS |-> cant[6],
   TERCIADAS |-> cant[7], PUNTALES |-> cant[8], CARPAS_PLASTICAS |-> cant[9]]

\* The rows a batch is made of.
RegistrosCrudos ==
  { \* a community kitchen with kits, every field resolvable
    Registro(Fecha(2020, 5), T_Caaguazu, T_CnelOviedo, T_BarrioObrero, T_OllaPop,
             [Ceros EXCEPT ![1] = C(MaxCantidad), ![2] = NumStr(<<"1", ",", "5">>)]),
    \* a pre-positioning entry with quantities
    Registro(Fecha(2021, 1), CENTRAL, T_Luque, NONE, T_Prepos,
             [Ceros EXCEPT ![1] = C(MaxCantidad), ![5] = C(2)]),
    \* no event and no quantities at all
    Registro(Fecha(2021, 2), CENTRAL, <<>>, <<>>, <<>>,
             [Ceros EXCEPT ![2] = NumNone, ![3] = NumStr(<<>>), ![4] = NumNan]),
    \* no event, a negative sheet count and mattresses
    Registro(Fecha(2021, 3), T_Asuncion, T_Asuncion, T_Sajonai, NONE,
             [Ceros EXCEPT ![4] = NumStr(<<"-", "1">>), ![5] = C(2)]),
    \* a good row whose date does not parse
    Registro(FechaInvalida, T_Caaguazu, T_CnelOviedo, T_Sajonia, T_Incendio,
             [Ceros EXCEPT ![6] = C(1)]),
    \* a good row dated 1900
    Registro(Fecha(1900, 1), T_Boqueron, <<>>, T_Km12, NAN,
             [Ceros EXCEPT ![1] = C(1)]),
    \* a department, a district and a locality nothing matches; no event
    Registro(Fecha(2019, 12), T_Otro, T_Zzz, T_Km12, <<>>,
             [Ceros EXCEPT ![7] = C(1)]),
    \* few kits and zinc sheets, no event; district two canonical names match equally
    Registro(Fecha(2022, 7), NONE, T_Coronel, T_SanPedro, T_Otro,
             [Ceros EXCEPT ![1] = C(1), ![4] = C(MaxCantidad)]),
    \* a quantity that reads as infinity
    Registro(Fecha(2022, 8), CENTRAL, T_Luque, T_Sajonia, T_Incendio,
             [Ceros EXCEPT ![8] = NumStr(<<"i", "n", "f">>)]),
    \* a categorized event without quantities
    Registro(Fecha(2022, 9), CENTRAL, T_Luque, <<>>, T_Incendio, Ceros),
    \* the district written in the locality field
    Registro(Fecha(2023, 1), CAPITAL, NONE, T_Luque, T_Incendio,
             [Ceros EXCEPT ![9] = C(1)]),
    \* a locality two canonical districts match equally
    Registro(Fecha(2023, 2), T_SanPedro, <<>>, T_Patricio, T_Incendio,
             [Ceros EXCEPT ![1] = C(1), ![2] = NumFloat(3, 2)]),
    \* a categorized event with a negative kit count
    Registro(Fecha(2023, 3), T_Caaguazu, T_CnelOviedo, NONE, T_Incendio,
             [Ceros EXCEPT ![1] = C(-MaxCantidad), ![6] = C(1)]) }

\* the rows of RegistrosCrudos after normalize_locations, for each registry and
\* each hash seed
UbicacionesCrudas ==
  [row \in RegistrosCrudos,
   barrios \in {cargar_barrios_desde_json(archivo) : archivo \in ArchivosBarrios},
   sem \in Semillas |-> normalizar_fila(row, barrios, sem)] @@ <<>>

Lotes == UNION {[0..(n - 1) -> RegistrosCrudos] : n \in 0..MaxLote}

\* quantity cells for limpiar_numero
AlfabetoNumero == {"1", "5", "0", "-", ",", ".", " ", "i", "n", "f", "a"}
TextosNumero == UNION {[1..n -> AlfabetoNumero] : n \in 0..MaxLargoNumero}
ValoresNumero ==
  {NumNone, NumNpNan, NumNan, NumInf(1), NumInf(-1), NumObj}
    \cup {NumInt(n) : n \in (-MaxCantidad)..MaxCantidad}
    \cup {NumFloat(n, 2) : n \in (-2 * MaxCantidad)..(2 * MaxCantidad)}
    \cup {NumStr(s) : s \in TextosNumero}

------------------------------------------------------------------------
\* values handed to estandarizar_departamento_robusto: null, blank, the
\* canonical names, every key of the correction dictionary, every district,
\* texts nothing matches, and texts made of two parts around a separator
PartesDepartamento ==
  {T_Caaguazu, T_Boqueron, T_Zzz, <<"C", "A", "P", "I", "T", "A", "L">>,
   <<"N~", "E", "E", "M", "B", "U", "C", "U">>,
   <<"D", "P", "T", "O", ".", " ", "C", "e", "n", "t", "r", "a", "l">>,
   <<"N~", "E", "M", "B", "U", "C", "U">>, <<"N", "e", "m", "b", "u", "c", "u">>}

EntradasDepartamento ==
  {NONE, NAN, <<>>, <<" ", " ">>, T_Otro, T_Km12, T_Luque, T_CnelOviedo}
    \cup Range(departamentos)
    \cup Claves(estandarizacion_dept)
    \cup Range(todos_distritos_validos)
    \cup {a \o separadores[i] \o b :
            a \in PartesDepartamento, b \in PartesDepartamento, i \in DOMAIN separadores}

\* calls of _buscar_mejor_coincidencia: the text, the candidates (a
\* collection without order) and the threshold in hundredths
TextosBusqueda ==
  {NONE, <<>>, T_Coronel, T_SanPedro, T_Patricio, T_CnelOviedo, T_Zzz,
   <<"c", "h", "o", "r", "e'">>}

CandidatosBusqueda ==
  { <<"C", "O", "R", "O", "N", "E", "L", " ", "B", "O", "G", "A", "D", "O">>,
    <<"C", "O", "R", "O", "N", "E", "L", " ", "O", "V", "I", "E", "D", "O">>,
    <<"C", "H", "O", "R", "E">>,
    <<"S", "A", "N", " ", "A", "L", "B", "E", "R", "T", "O">>,
    <<"S", "A", "N", " ", "A", "L", "F", "R", "E", "D", "O">>,
    <<"R", "E", "P", "A", "T", "R", "I", "A", "C", "I", "O'", "N">>,
    <<"S", "A", "N", " ", "P", "A", "T", "R", "I", "C", "I", "O">> }

ColeccionesOpciones == {c \in SUBSET CandidatosBusqueda : Cardinality(c) <= MaxOpciones}

Umbrales == {60, 70, 80, 85}

\* the orders in which a collection can be enumerated
Enumeraciones(c) ==
  {orden \in [1..Cardinality(c) -> c] : \A x \in c : \E i \in 1..Cardinality(c) : orden[i] = x}
-----
(* Specifications                                                           *)

varsPipeline == <<semilla, barrios_por_distrito, etapa, entrada, df, inferido>>
varsNumero == <<numValor, numSalida>>
varsDepto == <<depEntrada, depSalida>>
varsMatch == <<bmLlamada, bmOrden, bmSalida>>
varsInfer == <<infFila, infSalida>>
varsEvento == <<evEntrada, evSalida>>
varsLocalidad == <<locCaso, locCorregida, locSalida>>
varsCarga == <<bd, tx, sec, corrida, lote, fase, pendientes, mapas, cuenta, fallos, historia, dimAntes>>
varsDistrito == <<disCaso, disSalida>>
varsUnidades == <<varsInfer, varsEvento, varsLocalidad, varsCarga, varsDistrito>>

ReposoPipeline ==
  /\ semilla = 0 /\ barrios_por_distrito = <<>> /\ etapa = "reposo"
  /\ entrada = <<>> /\ df = <<>> /\ inferido = <<>>
ReposoNumero == numValor = NumNone /\ numSalida = <<>>
ReposoDepto == depEntrada = NONE /\ depSalida = <<>>
ReposoMatch == bmLlamada = <<>> /\ bmOrden = <<>> /\ bmSalida = <<>>
ReposoInfer == infFila = <<>> /\ infSalida = <<>>
ReposoEvento == evEntrada = NONE /\ evSalida = <<>>
ReposoLocalidad == locCaso = <<>> /\ locCorregida = <<>> /\ locSalida = <<>>
ReposoCarga ==
  /\ bd = <<>> /\ tx = <<>> /\ sec = <<>> /\ corrida = 0 /\ lote = <<>> /\ fase = "reposo"
  /\ pendientes = <<>> /\ mapas = <<>> /\ cuenta = <<>> /\ fallos = 0 /\ historia = <<>>
  /\ dimAntes = <<>>
ReposoDistrito == disCaso = <<>> /\ disSalida = <<>>
ReposoUnidades == ReposoInfer /\ ReposoEvento /\ ReposoLocalidad /\ ReposoCarga /\ ReposoDistrito

\* ---- the pipeline over a batch ----

Init ==
  /\ semilla \in Semillas
  /\ \E archivo \in ArchivosBarrios :
       barrios_por_distrito = cargar_barrios_desde_json(archivo)
  /\ entrada \in Lotes
  /\ df = entrada
  /\ etapa = "inicio"
  /\ inferido = <<>>
  /\ ReposoNumero /\ ReposoDepto /\ ReposoMatch /\ ReposoUnidades

\* 1. df = self.normalize_locations(df)
NormalizarUbicaciones ==
  /\ etapa = "inicio"
  /\ df' = normalize_locations(df, barrios_por_distrito, semilla, UbicacionesCrudas)
  /\ etapa' = "ubicaciones"
  /\ UNCHANGED <<semilla, barrios_por_distrito, entrada, inferido, varsNumero, varsDepto, varsMatch, varsUnidades>>

\* 2. df['EVENTO'] = df['EVENTO'].apply(self.estandarizar_evento_robusto)
EstandarizarEventos ==
  /\ etapa = "ubicaciones"
  /\ df' = [idx \in DOMAIN df |->
              [df[idx] EXCEPT !.EVENTO = estandarizar_evento_robusto(df[idx].EVENTO)]]
  /\ etapa' = "eventos"
  /\ UNCHANGED <<semilla, barrios_por_distrito, entrada, inferido, varsNumero, varsDepto, varsMatch, varsUnidades>>

\* 3. the _TEMP columns and the inference loop; limpiar_numero raising on a
\* cell ends the pipeline with the exception
InferirEventos ==
  /\ etapa = "eventos"
  /\ IF \E idx \in DOMAIN df : \E i \in DOMAIN insumos_cols :
          limpiar_numero(df[idx][insumos_cols[i]]).exc # ""
     THEN /\ etapa' = "OverflowError"
          /\ UNCHANGED <<df, inferido, varsUnidades>>
     ELSE /\ df' = [idx \in DOMAIN df |->
                      [df[idx] EXCEPT !.EVENTO =
                         post_process_eventos_with_aids(temp_row(df[idx]))]]
          /\ inferido' = df'
          /\ etapa' = "inferidos"
  /\ UNCHANGED <<semilla, barrios_por_distrito, entrada, varsNumero, varsDepto, varsMatch, varsUnidades>>

\* 4. the filter on ELIMINAR_REGISTRO and TOTAL_INSUMOS
FiltrarRegistros ==
  /\ etapa = "inferidos"
  /\ df' = filtrar(df)
  /\ etapa' = "filtrados"
  /\ UNCHANGED <<semilla, barrios_por_distrito, entrada, inferido, varsNumero, varsDepto, varsMatch, varsUnidades>>

\* 5. df = self.feature_engineering_basico(df)
FeatureEngineering ==
  /\ etapa = "filtrados"
  /\ df' = feature_engineering_basico(df)
  /\ etapa' = "derivados"
  /\ UNCHANGED <<semilla, barrios_por_distrito, entrada, inferido, varsNumero, varsDepto, varsMatch, varsUnidades>>

\* 6. df = self.estandarizacion_final_columnas(df); return df
EstandarizacionFinal ==
  /\ etapa = "derivados"
  /\ df' = estandarizacion_final_columnas(df)
  /\ etapa' = "fin"
  /\ UNCHANGED <<semilla, barrios_por_distrito, entrada, inferido, varsNumero, varsDepto, varsMatch, varsUnidades>>

Next ==
  \/ NormalizarUbicaciones
  \/ EstandarizarEventos
  \/ InferirEventos
  \/ FiltrarRegistros
  \/ FeatureEngineering
  \/ EstandarizacionFinal

Spec == Init /\ [][Next]_vars

\* ---- limpiar_numero on one value ----

InitNum ==
  /\ numValor \in ValoresNumero
  /\ numSalida = <<>>
  /\ ReposoPipeline /\ ReposoDepto /\ ReposoMatch /\ ReposoUnidades

\* the call limpiar_numero(numValor)
LimpiarNumero ==
  /\ numSalida = <<>>
  /\ numSalida' = <<limpiar_numero(numValor)>>
  /\ UNCHANGED <<numValor, varsPipeline, varsDepto, varsMatch, varsUnidades>>

NextNum == LimpiarNumero

SpecNum == InitNum /\ [][NextNum]_vars

\* ---- estandarizar_departamento_robusto on one value, and again on its result ----

InitDept ==
  /\ depEntrada \in EntradasDepartamento
  /\ depSalida = <<>>
  /\ ReposoPipeline /\ ReposoNumero /\ ReposoMatch /\ ReposoUnidades

\* the call estandarizar_departamento_robusto(depEntrada)
ResolverDepartamento ==
  /\ depSalida = <<>>
  /\ depSalida' = <<estandarizar_departamento_robusto(depEntrada)>>
  /\ UNCHANGED <<depEntrada, varsPipeline, varsNumero, varsMatch, varsUnidades>>

\* the call on the value the first call returned
ResolverDeNuevo ==
  /\ Len(depSalida) = 1
  /\ depSalida' = Append(depSalida, estandarizar_departamento_robusto(depSalida[1]))
  /\ UNCHANGED <<depEntrada, varsPipeline, varsNumero, varsMatch, varsUnidades>>

NextDept == ResolverDepartamento \/ ResolverDeNuevo

SpecDept == InitDept /\ [][NextDept]_vars

\* ---- one call of _buscar_mejor_coincidencia ----

InitMatch ==
  /\ bmLlamada \in [texto : TextosBusqueda, opciones : ColeccionesOpciones, umbral : Umbrales]
  /\ bmOrden = <<>>
  /\ bmSalida = <<>>
  /\ ReposoPipeline /\ ReposoNumero /\ ReposoDepto /\ ReposoUnidades

\* the call: the collection is enumerated in some order
BuscarMejorCoincidencia ==
  /\ bmSalida = <<>>
  /\ \E orden \in Enumeraciones(bmLlamada.opciones) :
       /\ bmOrden' = orden
       /\ bmSalida' = <<buscar_mejor_coincidencia(bmLlamada.texto, orden, bmLlamada.umbral)>>
  /\ UNCHANGED <<bmLlamada, varsPipeline, varsNumero, varsDepto, varsUnidades>>

NextMatch == BuscarMejorCoincidencia

SpecMatch == InitMatch /\ [][NextMatch]_vars

-----------------------------------------------------------------------------
(* Properties of the pipeline (Spec)                                        *)

\* the localities of the registry, as loaded
localidades_registro == UNION {Range(barrios_por_distrito[i][2]) : i \in DOMAIN barrios_por_distrito}

\* a row has a date feature_engineering_basico keeps
FechaValida(row) == row.FECHA.t = "fecha" /\ row.FECHA.a > 1900

C2_SalidaConInsumosYSinDescarte ==
  etapa = "fin" =>
    /\ \A idx \in DOMAIN df :
         /\ total_insumos(df[idx]) > 0
         /\ df[idx].EVENTO # ELIMINAR_REGISTRO
    /\ \A idx \in DOMAIN entrada :
         estandarizar_evento_robusto(entrada[idx].EVENTO) = ELIMINAR_REGISTRO
           => idx \notin DOMAIN df

\* a finished run with output whose batch had a 'PREPOS.' record with quantities
C2_Testigo ==
  /\ etapa = "fin"
  /\ DOMAIN df # {}
  /\ \E idx \in DOMAIN entrada :
       /\ entrada[idx].EVENTO = T_Prepos
       /\ total_insumos(entrada[idx]) > 0
       /\ idx \notin DOMAIN df

\* C3: no output record has event SIN_INSUMOS: every record inference gives
\* that event is dropped by the filter.
C3_SalidaSinSinInsumos ==
  etapa = "fin" =>
    /\ \A idx \in DOMAIN df : df[idx].EVENTO # SIN_INSUMOS
    /\ \A idx \in DOMAIN inferido :
         inferido[idx].EVENTO = SIN_INSUMOS => idx \notin DOMAIN df

\* C4: no output record has event SIN EVENTO: inference leaves no record
\* with it before the filter.
C4_SalidaSinSinEvento ==
  /\ etapa \in {"inferidos", "filtrados", "derivados", "fin"} =>
       \A idx \in DOMAIN inferido : inferido[idx].EVENTO # SIN_EVENTO
  /\ etapa = "fin" => \A idx \in DOMAIN df : df[idx].EVENTO # SIN_EVENTO

\* a finished run with an output record whose categorized event was SIN EVENTO
C4_Testigo ==
  /\ etapa = "fin"
  /\ \E idx \in DOMAIN df :
       /\ estandarizar_evento_robusto(entrada[idx].EVENTO) = SIN_EVENTO
       /\ df[idx].EVENTO # SIN_EVENTO

\* C5, as stated: in every output record the department is one of the 18
\* canonical departments, the district is a canonical district or
\* SIN ESPECIFICAR, and the locality is in the registry or SIN ESPECIFICAR.
C5_UbicacionCanonicaOSinEspecificar ==
  etapa = "fin" =>
    \A idx \in DOMAIN df :
      /\ df[idx].DEPARTAMENTO \in Range(departamentos)
      /\ df[idx].DISTRITO \in Range(todos_distritos_validos) \cup {SIN_ESPECIFICAR}
      /\ \/ df[idx].LOCALIDAD = SIN_ESPECIFICAR
         \/ norm_str(df[idx].LOCALIDAD) \in localidades_registro

\* C5, amended: in every output record the department is one of the 18
\* canonical departments; the district is a canonical district,
\* SIN ESPECIFICAR, or the cleaned text of the raw district; the locality is
\* in the registry, SIN ESPECIFICAR, or the cleaned text of the raw locality.
C5_UbicacionCanonicaOTextoLimpio ==
  etapa = "fin" =>
    \A idx \in DOMAIN df :
      /\ df[idx].DEPARTAMENTO \in Range(departamentos)
      /\ df[idx].DISTRITO \in Range(todos_distritos_validos)
                                \cup {SIN_ESPECIFICAR, limpiar_texto(entrada[idx].DISTRITO)}
      /\ \/ df[idx].LOCALIDAD \in {SIN_ESPECIFICAR, limpiar_texto(entrada[idx].LOCALIDAD)}
         \/ norm_str(df[idx].LOCALIDAD) \in localidades_registro

\* a finished run with an output record whose district is no canonical
\* district and whose locality is not in the registry
C5_Testigo ==
  /\ etapa = "fin"
  /\ \E idx \in DOMAIN df :
       /\ df[idx].DEPARTAMENTO = CENTRAL
       /\ df[idx].DISTRITO \notin Range(todos_distritos_validos) \cup {SIN_ESPECIFICAR}
       /\ df[idx].LOCALIDAD # SIN_ESPECIFICAR
       /\ norm_str(df[idx].LOCALIDAD) \notin localidades_registro

-----------------------------------------------------------------------------
(* Properties of estandarizar_departamento_robusto (SpecDept)               *)

\* C6: whatever the input (null, blank, any text), the result is one of the
\* 18 canonical department names, never SIN ESPECIFICAR and never raw text.
C6_DepartamentoCerrado ==
  /\ Cardinality(Range(departamentos)) = 18
  /\ SIN_ESPECIFICAR \notin Range(departamentos)
  /\ \A i \in DOMAIN depSalida : depSalida[i] \in Range(departamentos)

\* the resolver has returned CENTRAL for a text nothing matches
C6_Testigo == depEntrada = T_Otro /\ depSalida # <<>> /\ depSalida[1] = CENTRAL

\* C7: the resolver applied to its own result returns that result, and each
\* of the 18 canonical names resolves to itself.
C7_DepartamentoIdempotente ==
  /\ Len(depSalida) = 2 => depSalida[2] = depSalida[1]
  /\ depSalida # <<>> /\ depEntrada \in Range(departamentos) => depSalida[1] = depEntrada

\* the resolver has been applied twice from a department name that is also
\* the name of a district
C7_Testigo ==
  /\ Len(depSalida) = 2
  /\ depEntrada \in Range(departamentos) \cap Range(todos_distritos_validos)
  /\ depSalida[2] = depEntrada

-----------------------------------------------------------------------------
(* Properties of _buscar_mejor_coincidencia (SpecMatch)                     *)

\* C8: for a text, a collection of candidates and a threshold, the call
\* returns the same candidate in whatever order the candidates are enumerated.
C8_MejorCoincidenciaSinOrden ==
  bmSalida # <<>> =>
    \A orden \in Enumeraciones(bmLlamada.opciones) :
      buscar_mejor_coincidencia(bmLlamada.texto, orden, bmLlamada.umbral) = bmSalida[1]

-----------------------------------------------------------------------------
(* Properties of limpiar_numero (SpecNum)                                   *)

\* the value, with a comma read as a decimal point, converts to a finite number
Finito(value) ==
  float_de(IF value.t = "str" THEN NumStr(Reemplazar(value.s, ",", ".")) ELSE value).c = "finito"

\* C9: limpiar_numero returns an integer of 0 or more; for a number it is the
\* number truncated toward zero.
C9_NumeroNoNegativo ==
  numSalida # <<>> /\ numSalida[1].exc = "" =>
    /\ numSalida[1].v >= 0
    /\ numValor.t \in {"int", "float"} /\ numValor.n >= 0
         => numSalida[1].v = numValor.n \div numValor.d

\* C10: limpiar_numero never raises, and returns 0 for a value that has no
\* conversion to a finite integer.
C10_NumeroNuncaLanza ==
  numSalida # <<>> =>
    /\ numSalida[1].exc = ""
    /\ ~Finito(numValor) => numSalida[1].v = 0

-----------------------------------------------------------------------------
(* Event inference on one row (SpecInfer)                                   *)

\* the categories estandarizar_evento_robusto can return
Categorias ==
  {estandarizacion_eventos[i][2] : i \in DOMAIN estandarizacion_eventos}
    \cup {palabras_clave[i][2] : i \in DOMAIN palabras_clave}
    \cup {SIN_EVENTO}

\* departments of the rows drawn: two dry ones, the capital, two others
DepartamentosInferencia ==
  {<<"B", "O", "Q", "U", "E", "R", "O", "N">>,
   <<"P", "D", "T", "E", ".", " ", "H", "A", "Y", "E", "S">>,
   CAPITAL, CENTRAL}

\* the nine quantity cells of the rows drawn, in the order of insumos_cols
CantidadesInferencia ==
  {<<ka, kb, fi, zi, co, fr, C(0), C(0), ca>> :
     ka \in {C(0), C(1), C(10)}, kb \in {C(0), NumStr(<<"1", ",", "5">>)},
     fi \in {C(-1), C(0), C(1)}, zi \in {NumStr(<<"-", "1">>), C(0), C(1)},
     co \in {C(0), C(2)}, fr \in {C(0), C(1)}, ca \in {C(0), C(1)}}

\* rows as they reach the inference loop: department resolved, event categorized
FilasInferencia ==
  {Registro(Fecha(2021, 1), depto, SIN_ESPECIFICAR, SIN_ESPECIFICAR, evento, cant) :
     depto \in DepartamentosInferencia, evento \in Categorias, cant \in CantidadesInferencia}

InitInfer ==
  /\ infFila \in FilasInferencia
  /\ infSalida = <<>>
  /\ ReposoPipeline /\ ReposoNumero /\ ReposoDepto /\ ReposoMatch /\ ReposoDistrito /\ ReposoEvento /\ ReposoLocalidad /\ ReposoCarga

\* one turn of the inference loop: temp_row, post_process_eventos_with_aids,
\* and the event stored in the row
InferirFila ==
  /\ infSalida = <<>>
  /\ infSalida' = <<post_process_eventos_with_aids(temp_row(infFila))>>
  /\ UNCHANGED <<infFila, varsPipeline, varsNumero, varsDepto, varsMatch, varsDistrito, varsEvento, varsLocalidad, varsCarga>>

NextInfer == InferirFila

SpecInfer == InitInfer /\ [][NextInfer]_vars

\* the coerced quantity of a column of the row
Cantidad(row, col) == limpiar_numero(row[col]).v

\* total_kits: kit-A + kit-B
TotalKits(row) == Cantidad(row, "KIT_A") + Cantidad(row, "KIT_B")

\* materials: the sum of the seven material fields
Materiales(row) ==
  Cantidad(row, "CHAPA_FIBROCEMENTO") + Cantidad(row, "CHAPA_ZINC")
    + Cantidad(row, "COLCHONES") + Cantidad(row, "FRAZADAS") + Cantidad(row, "TERCIADAS")
    + Cantidad(row, "PUNTALES") + Cantidad(row, "CARPAS_PLASTICAS")

\* the outcome of the first rule that matches, in the order 1..8
PrimeraRegla(row) ==
  IF row.DEPARTAMENTO \in departamentos_secos THEN SEQUIA
  ELSE IF 0 < TotalKits(row) /\ TotalKits(row) < 10 /\ Materiales(row) > 0 THEN INCENDIO
  ELSE IF row.DEPARTAMENTO = CAPITAL /\ TotalKits(row) > 0 /\ Materiales(row) = 0
    THEN INUNDACION
  ELSE IF Cantidad(row, "CHAPA_ZINC") > 0 /\ TotalKits(row) = 0
          /\ Cantidad(row, "CHAPA_FIBROCEMENTO") = 0 THEN TORMENTA_SEVERA
  ELSE IF Cantidad(row, "CHAPA_FIBROCEMENTO") > 0 /\ TotalKits(row) = 0
          /\ Cantidad(row, "CHAPA_ZINC") = 0 THEN INUNDACION
  ELSE IF TotalKits(row) > 0 THEN EXTREMA_VULNERABILIDAD
  ELSE IF TotalKits(row) = 0 /\ Materiales(row) = 0 THEN SIN_INSUMOS
  ELSE EXTREMA_VULNERABILIDAD

\* C11: on a row whose categorized event is SIN EVENTO, inference returns the
\* outcome of the first matching rule in the order 1..8, with total_kits =
\* kit-A + kit-B and materials = the sum of the seven material fields, for
\* every department and every combination of coerced quantities.
C11_InferenciaPrimeraRegla ==
  infSalida # <<>> /\ infFila.EVENTO = SIN_EVENTO => infSalida[1] = PrimeraRegla(infFila)

\* C11 on the rows whose nine coerced quantities are all 0 or more
C11_InferenciaSinNegativos ==
  /\ infSalida # <<>>
  /\ infFila.EVENTO = SIN_EVENTO
  /\ \A i \in DOMAIN insumos_cols : Cantidad(infFila, insumos_cols[i]) >= 0
  => infSalida[1] = PrimeraRegla(infFila)

\* C12: inference returns an already categorized event as it is: the discard
\* sentinel and every category other than SIN EVENTO, whatever the department
\* and the quantities.
C12_EventoCategorizadoIntacto ==
  infSalida # <<>> /\ infFila.EVENTO # SIN_EVENTO => infSalida[1] = infFila.EVENTO

\* inference has run on a row of a dry department, without kits and with
\* materials, whose event was already categorized
C12_Testigo ==
  /\ infSalida # <<>>
  /\ infFila.EVENTO \in {ELIMINAR_REGISTRO, INCENDIO}
  /\ infFila.DEPARTAMENTO \in departamentos_secos
  /\ TotalKits(infFila) = 0 /\ Materiales(infFila) > 0
  /\ infSalida[1] = infFila.EVENTO

-----------------------------------------------------------------------------
(* Event categorization of one label (SpecEvento)                           *)

\* raw labels: null, every key of the correction dictionary, labels
\* written in lower case, with and without their accents, and with blanks
\* around them, and labels with two keywords
EtiquetasEvento ==
  {NONE, NAN, <<" ">>, T_Otro, T_OllaPop, T_Prepos, T_Incendio,
   <<"t", "o", "r", "m", "e", "n", "t", "a", " ", "e", " ", "i", "n", "c", "e", "n", "d", "i", "o">>,
   <<"s", "e", "q", "u", "i", "a", " ", "e", " ", "i", "n", "u", "n", "d", "a", "c", "i", "o", "n">>,
   <<"c", "o", "r", "t", "e", " ", "s", "u", "p", "r", "e", "m", "a">>,
   <<"S", "e", "q", "u", "i'", "a">>, <<"s", "e", "q", "u", "i", "a">>,
   <<" ", "S", "E", "Q", "U", "I", "A", " ">>, <<"S", "E", "Q", "U", "I'", "A">>,
   <<"i", "n", "u", "n", "d", "a", "c", "i", "o'", "n", " ", "s", "u'", "b", "i", "t", "a">>,
   <<"I", "n", "u", "n", "d", "a", "c", "i", "o", "n", " ", "s", "u", "b", "i", "t", "a">>,
   <<"i", "n", "u", "n", "d", "a", "c", "i", "o'", "n">>,
   <<"I", "N", "U", "N", "D", "A", "C", "I", "O", "N">>,
   <<"R", "e", "p", "o", "s", "i", "c", "i", "o'", "n">>,
   <<"r", "e", "p", "o", "s", "i", "c", "i", "o", "n", " ">>,
   <<"T", "o", "r", "m", "e", "n", "t", "a", " ", "e", "l", "e'", "c", "t", "r", "i", "c", "a">>,
   <<"T", "O", "R", "M", "E", "N", "T", "A", " ", "E", "L", "E", "C", "T", "R", "I", "C", "A">>,
   <<"N", "A", "N", "G", "A", "R", "E", "C", "O">>,
   <<"n~", "a", "n", "g", "a", "r", "e", "c", "o">>,
   <<"D", "o", "n", "a", "c", "i", "o'", "n">>, <<"D", "O", "N", "A", "C", "I", "O", "N">>,
   <<"c", "o", "v", "i", "d">>, <<"C", "o'", "v", "i", "d", " ", "1", "9">>}
    \cup Claves(estandarizacion_eventos)

InitEvento ==
  /\ evEntrada \in EtiquetasEvento
  /\ evSalida = <<>>
  /\ ReposoPipeline /\ ReposoNumero /\ ReposoDepto /\ ReposoMatch /\ ReposoDistrito /\ ReposoInfer /\ ReposoLocalidad /\ ReposoCarga

\* the call estandarizar_evento_robusto(evEntrada)
CategorizarEvento ==
  /\ evSalida = <<>>
  /\ evSalida' = <<estandarizar_evento_robusto(evEntrada)>>
  /\ UNCHANGED <<evEntrada, varsPipeline, varsNumero, varsDepto, varsMatch, varsDistrito, varsInfer, varsLocalidad, varsCarga>>

NextEvento == CategorizarEvento

SpecEvento == InitEvento /\ [][NextEvento]_vars

\* two labels differ only in letter case, diacritics or blanks around them
MismaEtiqueta(a, b) == ~EsNulo(a) /\ ~EsNulo(b) /\ norm_str(a) = norm_str(b)

\* C13: categorization is case- and diacritic-insensitive: two raw labels
\* that differ only in letter case, diacritics or surrounding whitespace get
\* the same category.
C13_EventoSinCajaNiDiacriticos ==
  evSalida # <<>> =>
    \A otra \in EtiquetasEvento :
      MismaEtiqueta(otra, evEntrada) => estandarizar_evento_robusto(otra) = evSalida[1]

\* C13 for letter case and surrounding whitespace alone
C13_EventoSinCaja ==
  evSalida # <<>> =>
    \A otra \in EtiquetasEvento :
      ~EsNulo(otra) /\ ~EsNulo(evEntrada) /\ upper(strip(otra)) = upper(strip(evEntrada))
        => estandarizar_evento_robusto(otra) = evSalida[1]

-----------------------------------------------------------------------------
(* Properties of estandarizar_departamento_robusto, continued (SpecDept)    *)

\* the normalized key of each text handed to the resolver
ClaveDepartamento ==
  [e \in EntradasDepartamento \ {NONE, NAN} |-> norm_str(e)] @@ <<>>

\* C14: two raw department texts with the same normalized key (upper-cased,
\* diacritics stripped, whitespace collapsed) resolve to the same canonical
\* department, on every path, the one through the part before a separator
\* included.
C14_DepartamentoSinDiacriticos ==
  depSalida # <<>> /\ depEntrada \in DOMAIN ClaveDepartamento =>
    \A otra \in DOMAIN ClaveDepartamento :
      ClaveDepartamento[otra] = ClaveDepartamento[depEntrada]
        => estandarizar_departamento_robusto(otra) = depSalida[1]

\* C14 for the texts without a separator
C14_SinSeparador ==
  /\ depSalida # <<>>
  /\ depEntrada \in DOMAIN ClaveDepartamento
  /\ \A i \in DOMAIN separadores : ~Contiene(limpiar_texto(depEntrada), separadores[i])
  => \A otra \in DOMAIN ClaveDepartamento :
       ClaveDepartamento[otra] = ClaveDepartamento[depEntrada]
         => estandarizar_departamento_robusto(otra) = depSalida[1]

-----------------------------------------------------------------------------
(* Field-swap correction and locality resolution of one row (SpecLocalidad) *)

\* locality cells: null, blank, names of districts, misspelt names of
\* districts, names of the registry, a misspelt one, texts nothing matches
LocalidadesCaso ==
  {NONE, NAN, <<>>, <<" ">>, T_Luque, T_CnelOviedo, T_Coronel, T_Patricio, T_SanPedro,
   T_Sajonia, T_Sajonai, T_BarrioObrero, T_Km12, T_Zzz, <<"k", "m">>,
   <<"L", "u", "q", "e">>, <<"C", "a", "a", "c", "u", "p", "e">>}

\* district cells as step 2 leaves them: SIN ESPECIFICAR, a canonical
\* district, or a cleaned text nothing matched
DistritosCaso ==
  {SIN_ESPECIFICAR, <<"L", "U", "Q", "U", "E">>,
   <<"A", "S", "U", "N", "C", "I", "O'", "N">>, <<"Z", "Z", "Z", " ", "Q", "Q">>}

InitLocalidad ==
  /\ locCaso \in [archivo : ArchivosBarrios, localidad : LocalidadesCaso,
                  distrito : DistritosCaso, sem : Semillas]
  /\ locCorregida = <<>>
  /\ locSalida = <<>>
  /\ ReposoPipeline /\ ReposoNumero /\ ReposoDepto /\ ReposoMatch /\ ReposoDistrito /\ ReposoInfer /\ ReposoEvento
  /\ ReposoCarga

\* step 3 of normalize_locations on the row
CorregirDistritoEnLocalidad ==
  /\ locCorregida = <<>>
  /\ locCorregida' =
       <<corregir_distrito_en_localidad(locCaso.localidad, locCaso.distrito, locCaso.sem)>>
  /\ UNCHANGED <<locCaso, locSalida, varsPipeline, varsNumero, varsDepto, varsMatch, varsDistrito,
                 varsInfer, varsEvento, varsCarga>>

\* step 4 of normalize_locations on the row, in a cleaner built with the
\* registry file of the case
EstandarizarLocalidad ==
  /\ locCorregida # <<>> /\ locSalida = <<>>
  /\ locSalida' =
       <<estandarizar_localidad_robusta(cargar_barrios_desde_json(locCaso.archivo),
                                        locCorregida[1][1], locCorregida[1][2])>>
  /\ UNCHANGED <<locCaso, locCorregida, varsPipeline, varsNumero, varsDepto, varsMatch, varsDistrito,
                 varsInfer, varsEvento, varsCarga>>

NextLocalidad == CorregirDistritoEnLocalidad \/ EstandarizarLocalidad

SpecLocalidad == InitLocalidad /\ [][NextLocalidad]_vars

\* the canonical districts a text matches: equal keys, or similarity of 0.8 or more
DistritosQueCoinciden(texto) ==
  {d \in Range(todos_distritos_validos) :
     \/ norm_str(d) = norm_str(texto)
     \/ AlMenos(calcular_similitud(texto, d), 80)}

\* for each locality cell that is a text, the canonical districts it matches
CoincidenciasCaso ==
  [l \in {x \in LocalidadesCaso : ~EsNulo(x) /\ limpiar_texto(x) # SIN_ESPECIFICAR} |->
     DistritosQueCoinciden(limpiar_texto(l))] @@ <<>>

DistritoVacio(distrito) == distrito \in {SIN_ESPECIFICAR, <<>>}

\* a locality cell and its cleaned text are the same value of the field
ComoEstaba(valor, celda) == valor = celda \/ (~EsNulo(celda) /\ valor = limpiar_texto(celda))

\* C15, as stated: the correction changes the record only when the locality
\* matches a canonical district and the district field is empty, and then the
\* district becomes a canonical district the locality matches and the
\* locality SIN ESPECIFICAR; with the district field filled, locality and
\* district are left as they were.
C15_IntercambioSoloConDistritoVacio ==
  locCorregida # <<>> =>
    LET loc == locCaso.localidad
        dist == locCaso.distrito
        par == locCorregida[1]
    IN /\ ~(ComoEstaba(par[1], loc) /\ par[2] = dist) =>
            /\ loc \in DOMAIN CoincidenciasCaso /\ CoincidenciasCaso[loc] # {}
            /\ DistritoVacio(dist)
            /\ par[1] = SIN_ESPECIFICAR /\ par[2] \in CoincidenciasCaso[loc]
       /\ ~DistritoVacio(dist) => ComoEstaba(par[1], loc) /\ par[2] = dist

\* C15, amended: the district changes only when the locality matches a
\* canonical district and the district field is empty, and becomes a
\* canonical district the locality matches; the locality becomes
\* SIN ESPECIFICAR whenever it matches a canonical district, the district
\* field empty or filled; otherwise the locality is left as its cleaned text,
\* and a null locality as it is.
C15_IntercambioLimpiaLocalidad ==
  locCorregida # <<>> =>
    LET loc == locCaso.localidad
        dist == locCaso.distrito
        par == locCorregida[1]
    IN IF loc \in DOMAIN CoincidenciasCaso /\ CoincidenciasCaso[loc] # {}
       THEN /\ par[1] = SIN_ESPECIFICAR
            /\ IF DistritoVacio(dist) THEN par[2] \in CoincidenciasCaso[loc] ELSE par[2] = dist
       ELSE ComoEstaba(par[1], loc) /\ par[2] = dist

\* the correction has run on a row whose district field is filled and whose
\* locality matches a canonical district without being one: the locality is
\* cleared and the district kept
C15_Testigo ==
  /\ locCorregida # <<>>
  /\ locCaso.localidad = T_Patricio
  /\ locCaso.distrito = <<"L", "U", "Q", "U", "E">>
  /\ locCorregida[1] = <<SIN_ESPECIFICAR, locCaso.distrito>>

\* C16: with no registry file the cleaner is built with an empty registry,
\* and locality resolution returns SIN ESPECIFICAR (null or blank locality,
\* locality equal to the district, text shorter than 3 characters) or the
\* cleaned text, for every input.
C16_SinRegistroSoloHeuristicas ==
  /\ cargar_barrios_desde_json(NONE) = <<>>
  /\ locSalida # <<>> /\ locCaso.archivo = NONE =>
       LET localidad == locCorregida[1][1]
           distrito == locCorregida[1][2]
       IN IF EsNulo(localidad) \/ limpiar_texto(localidad) = SIN_ESPECIFICAR
             \/ limpiar_texto(localidad) = distrito \/ Len(limpiar_texto(localidad)) < 3
          THEN locSalida[1] = SIN_ESPECIFICAR
          ELSE locSalida[1] = limpiar_texto(localidad)

\* without a registry file, a misspelt name of the registry has been kept as
\* its cleaned text
C16_Testigo ==
  /\ locSalida # <<>> /\ locCaso.archivo = NONE
  /\ locCaso.localidad = T_Sajonai /\ locSalida[1] = limpiar_texto(T_Sajonai)

\* without a registry file, a text equal to the district has been cleared
C16_IgualAlDistrito ==
  /\ locSalida # <<>> /\ locCaso.archivo = NONE
  /\ locCaso.localidad = T_Zzz /\ locCaso.distrito = limpiar_texto(T_Zzz)
  /\ locSalida[1] = SIN_ESPECIFICAR

-----------------------------------------------------------------------------
(* Load into the warehouse: load_data_to_dw (SpecCarga)                     *)

MaxCorridas == 2        \* load runs
MaxRegistros == 2       \* records of a run
MaxFallos == 1          \* statements that raise in a run

\* dict.get(k) of a key the dict does not have: None
SinLlave == 0

\* fillna('SIN ESPECIFICAR').astype(str).str.strip().str.upper()
normalizar_texto_carga(x) ==
  IF EsNulo(x) THEN SIN_ESPECIFICAR ELSE upper(strip(str(x)))

CIDH == <<"C", ".", "I", ".", "D", ".", "H", ".">>

\* a record clean_data returns (the seven material quantities go to the fact
\* row as they are and are left out)
RegistroLimpio(fecha, evento, depto, distrito, localidad, kit_a, kit_b) ==
  [FECHA |-> fecha, ANIO |-> fecha.a, MES |-> fecha.m, EVENTO |-> evento,
   DEPARTAMENTO |-> depto, DISTRITO |-> distrito, LOCALIDAD |-> localidad,
   ORDEN_DEPARTAMENTO |-> orden_departamento(depto), KIT_A |-> kit_a, KIT_B |-> kit_b]

\* the records a run is made of: three of one district with two
\* localities, one with event C.I.D.H., one of another date and department
RegistrosLimpios ==
  { RegistroLimpio(Fecha(2021, 1), INCENDIO, CENTRAL, <<"L", "U", "Q", "U", "E">>,
                   SIN_ESPECIFICAR, 1, 2),
    RegistroLimpio(Fecha(2021, 1), CIDH, CENTRAL, <<"L", "U", "Q", "U", "E">>,
                   <<"M", "A", "R", "A", "M", "B", "U", "R", "E">>, 0, 3),
    RegistroLimpio(Fecha(2021, 1), INCENDIO, CENTRAL, <<"L", "U", "Q", "U", "E">>,
                   <<"M", "A", "R", "A", "M", "B", "U", "R", "E">>, 2, 2),
    RegistroLimpio(Fecha(2022, 7), INCENDIO, CAPITAL,
                   <<"A", "S", "U", "N", "C", "I", "O'", "N">>, T_Sajonia, 1, 0) }

LotesCarga == UNION {[1..n -> RegistrosLimpios] : n \in 1..MaxRegistros}

\* df_cleaned: the records with their four text columns normalized
preparar(registros) ==
  [i \in DOMAIN registros |->
     [registros[i] EXCEPT !.DEPARTAMENTO = normalizar_texto_carga(@),
                          !.DISTRITO = normalizar_texto_carga(@),
                          !.LOCALIDAD = normalizar_texto_carga(@),
                          !.EVENTO = normalizar_texto_carga(@)]]

\* drop_duplicates: the values of a column in the order of their first rows
Distintos(s) ==
  LET primeros == {i \in DOMAIN s : \A j \in 1..(i - 1) : s[j] # s[i]}
  IN [k \in 1..Cardinality(primeros) |->
        s[CHOOSE i \in primeros : Cardinality({j \in primeros : j < i}) = k - 1]]

\* the rows the three dimension loops go through: df_dates, df_events, df_locations
df_dates(d) ==
  Distintos([i \in DOMAIN d |->
    [tabla |-> "dim_fecha", clave |-> d[i].FECHA, datos |-> <<d[i].ANIO, d[i].MES>>]])
df_events(d) ==
  Distintos([i \in DOMAIN d |->
    [tabla |-> "dim_evento", clave |-> d[i].EVENTO, datos |-> <<>>]])
df_locations(d) ==
  Distintos([i \in DOMAIN d |->
    [tabla |-> "dim_ubicacion",
     clave |-> <<d[i].DEPARTAMENTO, d[i].DISTRITO, d[i].LOCALIDAD>>,
     datos |-> <<d[i].ORDEN_DEPARTAMENTO>>]])

\* A variant of the INSERT without its ON CONFLICT clause and without the
\* unique constraint it relies on.
insertar_sin_conflicto(tabla, fila) == tabla \cup {fila}

\* INSERT ... ON CONFLICT (natural key) DO NOTHING on a table whose natural
\* key is unique
on_conflict_do_nothing(tabla, fila) ==
  IF \E r \in tabla : r.clave = fila.clave THEN tabla ELSE tabla \cup {fila}

BDVacia == [dim_fecha |-> {}, dim_evento |-> {}, dim_ubicacion |-> {}, hechos |-> <<>>]
Dimensiones(b) ==
  [dim_fecha |-> b.dim_fecha, dim_evento |-> b.dim_evento, dim_ubicacion |-> b.dim_ubicacion]

\* set_index(key)[id].to_dict() of the rows read from a dimension
Mapa(filas, Clave(_)) ==
  [k \in {Clave(r) : r \in filas} |-> (CHOOSE r \in filas : Clave(r) = k).id]

\* departamento + '|' + distrito + '|' + localidad
ubicacion_key(depto, distrito, localidad) == depto \o <<"|">> \o distrito \o <<"|">> \o localidad

dim_fecha_map(b) == Mapa(b.dim_fecha, LAMBDA r : r.clave)
dim_evento_map(b) == Mapa(b.dim_evento, LAMBDA r : normalizar_texto_carga(r.clave))
dim_ubicacion_lookup(b) ==
  Mapa(b.dim_ubicacion,
       LAMBDA r : ubicacion_key(normalizar_texto_carga(r.clave[1]),
                                normalizar_texto_carga(r.clave[2]),
                                normalizar_texto_carga(r.clave[3])))

\* set_index(['departamento', 'distrito'])[id].to_dict(): of the rows of one
\* department and district the one read last remains, and the SELECT has no
\* ORDER BY
dim_ubicacion_by_dept_dist(b) ==
  LET par(r) == <<normalizar_texto_carga(r.clave[1]), normalizar_texto_carga(r.clave[2])>>
      pares == {par(r) : r \in b.dim_ubicacion}
  IN {m \in [pares -> {r.id : r \in b.dim_ubicacion}] :
        \A p \in pares : \E r \in b.dim_ubicacion : par(r) = p /\ r.id = m[p]}

MapasVacios == [fecha |-> <<>>, evento |-> <<>>, ubicacion |-> <<>>, dept_dist |-> <<>>]

\* dict.get(k)
Obtener(mapa, k) == IF k \in DOMAIN mapa THEN mapa[k] ELSE SinLlave

CuentaCero ==
  [registros_cargados |-> 0, missing_fecha |-> 0, missing_evento |-> 0,
   missing_ubicacion |-> 0, missing_ubicacion_keys |-> <<>>]

\* A variant of the test before the fact insert that looks at the date key alone.
llave_de_fecha(id_fecha, id_evento, id_ubicacion) == id_fecha # SinLlave

\* if id_fecha and id_evento and id_ubicacion
todas_las_llaves(id_fecha, id_evento, id_ubicacion) ==
  id_fecha # SinLlave /\ id_evento # SinLlave /\ id_ubicacion # SinLlave

\* A variant of the key resolution without the fallback by department and
\* district.
llaves_sin_respaldo(rec, m) ==
  <<Obtener(m.fecha, rec.FECHA),
    Obtener(m.evento, rec.EVENTO),
    Obtener(m.ubicacion, ubicacion_key(rec.DEPARTAMENTO, rec.DISTRITO, rec.LOCALIDAD))>>

\* the three keys the fact loop resolves for a record: <<id_fecha, id_evento, id_ubicacion>>
llaves_de(rec, m) ==
  LET id_ubicacion ==
        Obtener(m.ubicacion, ubicacion_key(rec.DEPARTAMENTO, rec.DISTRITO, rec.LOCALIDAD))
  IN <<Obtener(m.fecha, rec.FECHA),
       Obtener(m.evento, rec.EVENTO),
       IF id_ubicacion = SinLlave
       THEN Obtener(m.dept_dist, <<upper(strip(str(rec.DEPARTAMENTO))),
                                   upper(strip(str(rec.DISTRITO)))>>)
       ELSE id_ubicacion>>

\* A variant of the fact row that puts the kits in kit_evento whatever the
\* event.
fila_sin_sentencia(rec, llaves, id, de) ==
  [id |-> id, id_fecha |-> llaves[1], id_evento |-> llaves[2], id_ubicacion |-> llaves[3],
   kit_sentencia |-> 0, kit_evento |-> rec.KIT_A + rec.KIT_B, de |-> de]

\* the fact row of a record: kits go to kit_sentencia for C.I.D.H., to
\* kit_evento otherwise
fila_de_hechos(rec, llaves, id, de) ==
  LET total_kits == rec.KIT_A + rec.KIT_B
  IN [id |-> id, id_fecha |-> llaves[1], id_evento |-> llaves[2], id_ubicacion |-> llaves[3],
      kit_sentencia |-> IF rec.EVENTO = CIDH THEN total_kits ELSE 0,
      kit_evento |-> IF rec.EVENTO = CIDH THEN 0 ELSE total_kits,
      de |-> de]

\* ---- load runs over the warehouse ----

InitCarga ==
  /\ bd = BDVacia /\ tx = BDVacia
  /\ sec = [dim_fecha |-> 1, dim_evento |-> 1, dim_ubicacion |-> 1, hechos |-> 1]
  /\ corrida = 1
  /\ \E registros \in LotesCarga : lote = preparar(registros)
  /\ fase = "inicio"
  /\ pendientes = <<>> /\ mapas = MapasVacios /\ cuenta = CuentaCero
  /\ fallos = 0 /\ historia = <<>>
  /\ dimAntes = Dimensiones(BDVacia)
  /\ ReposoPipeline /\ ReposoNumero /\ ReposoDepto /\ ReposoMatch /\ ReposoDistrito
  /\ ReposoInfer /\ ReposoEvento /\ ReposoLocalidad

\* 1. TRUNCATE of the fact table and commit
Truncar ==
  /\ fase = "inicio"
  /\ tx' = [tx EXCEPT !.hechos = <<>>]
  /\ bd' = tx'
  /\ sec' = [sec EXCEPT !.hechos = 1]
  /\ fase' = "fechas"
  /\ pendientes' = df_dates(lote)
  /\ UNCHANGED <<corrida, lote, mapas, cuenta, fallos, historia, dimAntes,
                 varsPipeline, varsNumero, varsDepto, varsMatch, varsDistrito, varsInfer, varsEvento,
                 varsLocalidad>>

\* the TRUNCATE raises: rollback, and the exception ends the run
TruncarFalla ==
  /\ fase = "inicio" /\ fallos < MaxFallos
  /\ tx' = bd
  /\ fallos' = fallos + 1
  /\ fase' = "abortada"
  /\ UNCHANGED <<bd, sec, corrida, lote, pendientes, mapas, cuenta, historia, dimAntes,
                 varsPipeline, varsNumero, varsDepto, varsMatch, varsDistrito, varsInfer, varsEvento,
                 varsLocalidad>>

\* one turn of a dimension loop: the INSERT of the row
InsertarDimension ==
  /\ fase \in {"fechas", "dimensiones"} /\ pendientes # <<>>
  /\ LET it == Head(pendientes)
         fila == [id |-> sec[it.tabla], clave |-> it.clave, datos |-> it.datos]
     IN /\ tx' = [tx EXCEPT ![it.tabla] = on_conflict_do_nothing(@, fila)]
        /\ sec' = [sec EXCEPT ![it.tabla] = IF tx'[it.tabla] = tx[it.tabla] THEN @ ELSE @ + 1]
  /\ pendientes' = Tail(pendientes)
  /\ UNCHANGED <<bd, corrida, lote, fase, mapas, cuenta, fallos, historia, dimAntes,
                 varsPipeline, varsNumero, varsDepto, varsMatch, varsDistrito, varsInfer, varsEvento,
                 varsLocalidad>>

\* one turn of a dimension loop whose INSERT raises: the except clause rolls
\* the connection back
InsertarDimensionFalla ==
  /\ fase \in {"fechas", "dimensiones"} /\ pendientes # <<>>
  /\ fallos < MaxFallos
  /\ tx' = bd
  /\ fallos' = fallos + 1
  /\ pendientes' = Tail(pendientes)
  /\ UNCHANGED <<bd, sec, corrida, lote, fase, mapas, cuenta, historia, dimAntes,
                 varsPipeline, varsNumero, varsDepto, varsMatch, varsDistrito, varsInfer, varsEvento,
                 varsLocalidad>>

\* the commit after the loop of dim_fecha; the loops of dim_evento and
\* dim_ubicacion follow
ConfirmarFechas ==
  /\ fase = "fechas" /\ pendientes = <<>>
  /\ bd' = tx
  /\ fase' = "dimensiones"
  /\ pendientes' = df_events(lote) \o df_locations(lote)
  /\ UNCHANGED <<tx, sec, corrida, lote, mapas, cuenta, fallos, historia, dimAntes,
                 varsPipeline, varsNumero, varsDepto, varsMatch, varsDistrito, varsInfer, varsEvento,
                 varsLocalidad>>

\* the commit after the loops of dim_evento and dim_ubicacion, the counters
\* of the fact load, and the dimension maps read from the warehouse
ConfirmarDimensiones ==
  /\ fase = "dimensiones" /\ pendientes = <<>>
  /\ bd' = tx
  /\ cuenta' = CuentaCero
  /\ \E por_dept_dist \in dim_ubicacion_by_dept_dist(tx) :
       mapas' = [fecha |-> dim_fecha_map(tx), evento |-> dim_evento_map(tx),
                 ubicacion |-> dim_ubicacion_lookup(tx), dept_dist |-> por_dept_dist]
  /\ fase' = "hechos"
  /\ pendientes' = [i \in DOMAIN lote |-> i]
  /\ UNCHANGED <<tx, sec, corrida, lote, fallos, historia, dimAntes,
                 varsPipeline, varsNumero, varsDepto, varsMatch, varsDistrito, varsInfer, varsEvento,
                 varsLocalidad>>

\* one turn of the fact loop: the keys of the record, and its INSERT or the
\* counters of its missing keys
ProcesarRegistro ==
  /\ fase = "hechos" /\ pendientes # <<>>
  /\ LET i == Head(pendientes)
         rec == lote[i]
         llaves == llaves_de(rec, mapas)
         clave == ubicacion_key(rec.DEPARTAMENTO, rec.DISTRITO, rec.LOCALIDAD)
     IN IF todas_las_llaves(llaves[1], llaves[2], llaves[3])
        THEN /\ tx' = [tx EXCEPT !.hechos = Append(@, fila_de_hechos(rec, llaves, sec.hechos, i))]
             /\ sec' = [sec EXCEPT !.hechos = @ + 1]
             /\ cuenta' = [cuenta EXCEPT !.registros_cargados = @ + 1]
             /\ historia' = Append(historia, [de |-> i, llaves |-> llaves, estado |-> "insertado"])
        ELSE /\ cuenta' =
                  [cuenta EXCEPT
                     !.missing_fecha = IF llaves[1] = SinLlave THEN @ + 1 ELSE @,
                     !.missing_evento = IF llaves[2] = SinLlave THEN @ + 1 ELSE @,
                     !.missing_ubicacion = IF llaves[3] = SinLlave THEN @ + 1 ELSE @,
                     !.missing_ubicacion_keys =
                        IF llaves[3] = SinLlave
                        THEN [k \in DOMAIN @ \cup {clave} |-> Obtener(@, k) + IF k = clave THEN 1 ELSE 0]
                        ELSE @]
             /\ historia' = Append(historia, [de |-> i, llaves |-> llaves, estado |-> "rechazado"])
             /\ UNCHANGED <<tx, sec>>
  /\ pendientes' = Tail(pendientes)
  /\ UNCHANGED <<bd, corrida, lote, fase, mapas, fallos, dimAntes,
                 varsPipeline, varsNumero, varsDepto, varsMatch, varsDistrito, varsInfer, varsEvento,
                 varsLocalidad>>

\* one turn of the fact loop whose INSERT raises: the except clause rolls the
\* connection back and the loop goes on
ProcesarRegistroFalla ==
  /\ fase = "hechos" /\ pendientes # <<>>
  /\ fallos < MaxFallos
  /\ LET i == Head(pendientes)
         llaves == llaves_de(lote[i], mapas)
     IN /\ todas_las_llaves(llaves[1], llaves[2], llaves[3])
        /\ historia' = Append(historia, [de |-> i, llaves |-> llaves, estado |-> "error"])
  /\ tx' = bd
  /\ fallos' = fallos + 1
  /\ pendientes' = Tail(pendientes)
  /\ UNCHANGED <<bd, sec, corrida, lote, fase, mapas, cuenta, dimAntes,
                 varsPipeline, varsNumero, varsDepto, varsMatch, varsDistrito, varsInfer, varsEvento,
                 varsLocalidad>>

\* the commit after the fact loop, and the report
ConfirmarHechos ==
  /\ fase = "hechos" /\ pendientes = <<>>
  /\ bd' = tx
  /\ fase' = "fin"
  /\ UNCHANGED <<tx, sec, corrida, lote, pendientes, mapas, cuenta, fallos, historia, dimAntes,
                 varsPipeline, varsNumero, varsDepto, varsMatch, varsDistrito, varsInfer, varsEvento,
                 varsLocalidad>>

\* main again: a new connection and load_data_to_dw on the records of the run
OtraCorrida ==
  /\ fase \in {"fin", "abortada"} /\ corrida < MaxCorridas
  /\ corrida' = corrida + 1
  /\ \E registros \in LotesCarga : lote' = preparar(registros)
  /\ tx' = bd
  /\ fase' = "inicio"
  /\ pendientes' = <<>> /\ mapas' = MapasVacios /\ cuenta' = CuentaCero
  /\ fallos' = 0 /\ historia' = <<>>
  /\ dimAntes' = Dimensiones(bd)
  /\ UNCHANGED <<bd, sec,
                 varsPipeline, varsNumero, varsDepto, varsMatch, varsDistrito, varsInfer, varsEvento,
                 varsLocalidad>>

NextCarga ==
  \/ Truncar
  \/ TruncarFalla
  \/ InsertarDimension
  \/ InsertarDimensionFalla
  \/ ConfirmarFechas
  \/ ConfirmarDimensiones
  \/ ProcesarRegistro
  \/ ProcesarRegistroFalla
  \/ ConfirmarHechos
  \/ OtraCorrida

SpecCarga == InitCarga /\ [][NextCarga]_vars

\* the run has ended with its final commit
CargaTerminada == fase = "fin"

-----------------------------------------------------------------------------
(* Properties of load_data_to_dw (SpecCarga)                                *)

TablasDimension == {"dim_fecha", "dim_evento", "dim_ubicacion"}

\* no two rows of the table have the same natural key or the same surrogate key
ClavesUnicas(tabla) == \A r, s \in tabla : (r.clave = s.clave \/ r.id = s.id) => r = s

\* every natural key of the records of the run was in the dimensions when
\* the run began
LoteYaPresente ==
  \A i \in DOMAIN lote :
    /\ \E r \in dimAntes.dim_fecha : r.clave = lote[i].FECHA
    /\ \E r \in dimAntes.dim_evento : r.clave = lote[i].EVENTO
    /\ \E r \in dimAntes.dim_ubicacion :
         r.clave = <<lote[i].DEPARTAMENTO, lote[i].DISTRITO, lote[i].LOCALIDAD>>

\* the fact rows of record i among the committed ones
HechosDe(i) == {k \in DOMAIN bd.hechos : bd.hechos[k].de = i}

\* C17: dimension population is insert-if-absent and safe to re-run: at any
\* point of any number of runs each dimension table has at most one row per
\* natural key, no committed row is lost or changes its surrogate key, and a
\* run whose natural keys were all present leaves the dimensions as they were.
C17_DimensionesSinDuplicados ==
  fase # "reposo" =>
    /\ \A t \in TablasDimension : ClavesUnicas(bd[t]) /\ ClavesUnicas(tx[t])
    /\ \A t \in TablasDimension : dimAntes[t] \subseteq bd[t]
    /\ CargaTerminada /\ LoteYaPresente => Dimensiones(bd) = dimAntes

\* a second run has ended, with facts loaded, over records whose natural
\* keys were all in the dimensions already
C17_Testigo ==
  /\ CargaTerminada /\ corrida = 2
  /\ LoteYaPresente
  /\ dimAntes.dim_ubicacion # {}
  /\ bd.hechos # <<>>

\* C18: every fact row, committed or not, has three keys that are not null
\* and are the surrogate keys of committed dimension rows, and a record with
\* an unresolved key is rejected and has no fact row.
C18_HechosConLlavesConfirmadas ==
  fase # "reposo" =>
    /\ \A hechos \in {bd.hechos, tx.hechos} : \A k \in DOMAIN hechos :
         /\ hechos[k].id_fecha # SinLlave
         /\ hechos[k].id_evento # SinLlave
         /\ hechos[k].id_ubicacion # SinLlave
         /\ \E r \in bd.dim_fecha : r.id = hechos[k].id_fecha
         /\ \E r \in bd.dim_evento : r.id = hechos[k].id_evento
         /\ \E r \in bd.dim_ubicacion : r.id = hechos[k].id_ubicacion
    /\ \A k \in DOMAIN historia :
         (\E j \in 1..3 : historia[k].llaves[j] = SinLlave) =>
           /\ historia[k].estado = "rechazado"
           /\ \A h \in DOMAIN tx.hechos : tx.hechos[h].de # historia[k].de

\* a run has ended in which one record was rejected for an unresolved key
\* and another one was loaded
C18_Testigo ==
  /\ CargaTerminada
  /\ \E k \in DOMAIN historia :
       historia[k].estado = "rechazado" /\ historia[k].llaves[2] = SinLlave
  /\ bd.hechos # <<>>

\* the diagnostics of the run retain the natural key
ClaveRetenida(k) == k \in DOMAIN cuenta.missing_ubicacion_keys

\* C19: every record of the run that has no fact row was counted under one
\* of the three reasons (missing date, event or location key), and for each
\* of its unresolved keys the natural key is retained in the diagnostics.
C19_RechazosContadosConClave ==
  CargaTerminada =>
    \A i \in DOMAIN lote :
      HechosDe(i) = {} =>
        /\ historia[i].estado = "rechazado"
        /\ historia[i].llaves[1] = SinLlave =>
             cuenta.missing_fecha > 0 /\ ClaveRetenida(lote[i].FECHA)
        /\ historia[i].llaves[2] = SinLlave =>
             cuenta.missing_evento > 0 /\ ClaveRetenida(lote[i].EVENTO)
        /\ historia[i].llaves[3] = SinLlave =>
             /\ cuenta.missing_ubicacion > 0
             /\ ClaveRetenida(ubicacion_key(lote[i].DEPARTAMENTO, lote[i].DISTRITO,
                                            lote[i].LOCALIDAD))

\* C19 for the location key alone
C19_UbicacionRetenida ==
  CargaTerminada =>
    \A i \in DOMAIN lote :
      historia[i].estado = "rechazado" /\ historia[i].llaves[3] = SinLlave =>
        /\ cuenta.missing_ubicacion > 0
        /\ ClaveRetenida(ubicacion_key(lote[i].DEPARTAMENTO, lote[i].DISTRITO,
                                       lote[i].LOCALIDAD))

\* C20: in a run where the insert of one record raised, every other record
\* whose three keys resolved has its fact row after the final commit, whether
\* it came before or after the one that failed.
C20_FalloDeUnRegistroNoAfectaOtros ==
  CargaTerminada /\ (\E k \in DOMAIN historia : historia[k].estado = "error") =>
    \A k \in DOMAIN historia :
      historia[k].estado = "insertado" => HechosDe(historia[k].de) # {}

\* C20 for the records that come after the one whose insert raised
C20_LosPosterioresQuedan ==
  CargaTerminada =>
    \A k, e \in DOMAIN historia :
      historia[e].estado = "error" /\ e < k /\ historia[k].estado = "insertado"
        => HechosDe(historia[k].de) # {}

-----------------------------------------------------------------------------
(* More properties of load_data_to_dw (SpecCarga)                           *)

\* C21: the summary of a run is faithful: after the final commit the
\* reported registros_cargados is the number of fact rows committed in the
\* facts table, and the records processed are the loaded ones plus the
\* not-inserted ones (total_failed = total_processed - registros_cargados),
\* also in runs where inserts raise.
C21_ResumenFiel ==
  CargaTerminada =>
    LET total_processed == Len(lote)
        total_failed == total_processed - cuenta.registros_cargados
    IN /\ cuenta.registros_cargados = Len(bd.hechos)
       /\ total_processed = cuenta.registros_cargados + total_failed

\* C21 for the runs in which no statement raised
C21_ResumenFielSinFallos ==
  CargaTerminada /\ fallos = 0 =>
    /\ cuenta.registros_cargados = Len(bd.hechos)
    /\ cuenta.registros_cargados > 0

\* the rows of the location dimension with the record's department, district
\* and locality, and those with its department and district
FilasDeLaTerna(rec) ==
  {r \in bd.dim_ubicacion : r.clave = <<rec.DEPARTAMENTO, rec.DISTRITO, rec.LOCALIDAD>>}
FilasDelPar(rec) ==
  {r \in bd.dim_ubicacion : r.clave[1] = rec.DEPARTAMENTO /\ r.clave[2] = rec.DISTRITO}

\* C22: the location key of a record falls back to (department, district):
\* the key is missing only if the dimension has no row of the record's
\* department and district (and so none of its triple); a record whose triple
\* is in the dimension gets the key of that row, the fallback being left
\* aside; and a key the fallback yields is that of a row of the record's
\* department and district.
C22_RespaldoPorDepartamentoYDistrito ==
  fase \in {"hechos", "fin"} =>
    \A k \in DOMAIN historia :
      LET rec == lote[historia[k].de]
          id_ubicacion == historia[k].llaves[3]
      IN /\ id_ubicacion = SinLlave => FilasDelPar(rec) = {} /\ FilasDeLaTerna(rec) = {}
         /\ FilasDeLaTerna(rec) # {} => \E r \in FilasDeLaTerna(rec) : r.id = id_ubicacion
         /\ id_ubicacion # SinLlave => \E r \in FilasDelPar(rec) : r.id = id_ubicacion

\* a run has ended in which a record whose triple is not in the dimension
\* was loaded with the key of another locality of its district
C22_Testigo ==
  /\ CargaTerminada
  /\ \E k \in DOMAIN historia :
       /\ historia[k].estado = "insertado"
       /\ FilasDeLaTerna(lote[historia[k].de]) = {}
       /\ \E h \in DOMAIN bd.hechos :
            /\ bd.hechos[h].de = historia[k].de
            /\ bd.hechos[h].id_ubicacion = historia[k].llaves[3]
            /\ \E r \in FilasDelPar(lote[historia[k].de]) : r.id = historia[k].llaves[3]

-----------------------------------------------------------------------------
(* More properties of _buscar_mejor_coincidencia (SpecMatch)                *)

\* the candidates of the call whose normalized key is that of the text
Exactas == {c \in bmLlamada.opciones : norm_str(c) = norm_str(bmLlamada.texto)}

\* the candidates of the call whose score is at least the threshold
SobreUmbral ==
  {c \in bmLlamada.opciones : AlMenos(calcular_similitud(bmLlamada.texto, c), bmLlamada.umbral)}

\* C23: _buscar_mejor_coincidencia returns None for an empty text or an
\* empty collection; a candidate with the normalized key of the text when
\* there is one; otherwise a candidate whose score is at least the threshold
\* and is the greatest of all candidates, and None exactly when no candidate
\* scores at least the threshold.
C23_MejorCoincidencia ==
  bmSalida # <<>> =>
    IF bmLlamada.texto \in {NONE, <<>>} \/ bmLlamada.opciones = {} THEN bmSalida[1] = NONE
    ELSE IF Exactas # {} THEN bmSalida[1] \in Exactas
    ELSE /\ bmSalida[1] = NONE <=> SobreUmbral = {}
         /\ bmSalida[1] # NONE =>
              /\ bmSalida[1] \in SobreUmbral
              /\ \A c \in bmLlamada.opciones :
                   ~Mayor(calcular_similitud(bmLlamada.texto, c),
                          calcular_similitud(bmLlamada.texto, bmSalida[1]))

\* the call has returned the better of two candidates that both score at
\* least the threshold, the other one coming first in the enumeration
C23_Testigo ==
  /\ bmSalida # <<>> /\ bmSalida[1] # NONE
  /\ Exactas = {}
  /\ bmOrden[1] \in SobreUmbral
  /\ Mayor(calcular_similitud(bmLlamada.texto, bmSalida[1]),
           calcular_similitud(bmLlamada.texto, bmOrden[1]))

\* the call has returned the candidate with the key of the text
C23_TestigoExacta == bmSalida # <<>> /\ Exactas # {} /\ bmSalida[1] \in Exactas

-----------------------------------------------------------------------------
(* More properties of estandarizar_departamento_robusto (SpecDept)          *)

\* <<normalized district, department>> for every district of the hierarchy,
\* and <<normalized key, department>> for every entry of the correction
\* dictionary
DistritosConDueno ==
  UNION {{<<norm_str(DISTRITOS_POR_DEPARTAMENTO[i][2][j]), DISTRITOS_POR_DEPARTAMENTO[i][1]>> :
            j \in DOMAIN DISTRITOS_POR_DEPARTAMENTO[i][2]} :
         i \in DOMAIN DISTRITOS_POR_DEPARTAMENTO}
CorreccionesDepartamento ==
  {<<norm_str(estandarizacion_dept[i][1]), estandarizacion_dept[i][2]>> :
     i \in DOMAIN estandarizacion_dept}

\* the strategy that applies to a text of the department field, 1 to 5, and
\* the departments that strategy allows
EstrategiaDepartamento(texto) ==
  LET limpio == limpiar_texto(texto)
      norm == norm_str(limpio)
      partes == {i \in DOMAIN separadores :
                   /\ Contiene(limpio, separadores[i])
                   /\ strip(AntesDe(limpio, separadores[i])) \in Claves(estandarizacion_dept)}
      contenidos == {i \in DOMAIN departamento_orden :
                       Contiene(norm, norm_str(departamento_orden[i][1]))}
  IN IF \E p \in DistritosConDueno : p[1] = norm
       THEN [paso |-> 1, deptos |-> {p[2] : p \in {q \in DistritosConDueno : q[1] = norm}}]
     ELSE IF \E p \in CorreccionesDepartamento : p[1] = norm
       THEN [paso |-> 2, deptos |-> {p[2] : p \in {q \in CorreccionesDepartamento : q[1] = norm}}]
     ELSE IF partes # {}
       THEN [paso |-> 3,
             deptos |-> {Valor(estandarizacion_dept,
                               strip(AntesDe(limpio,
                                 separadores[CHOOSE i \in partes : \A h \in partes : i <= h])))}]
     ELSE IF contenidos # {}
       THEN [paso |-> 4,
             deptos |-> {departamento_orden[CHOOSE i \in contenidos :
                                              \A h \in contenidos : i <= h][1]}]
     ELSE [paso |-> 5, deptos |-> {CENTRAL}]

\* C24: estandarizar_departamento_robusto returns what the first strategy
\* that applies gives, in the order: the text is the name of a district (the
\* department that district belongs to), the text is a key of the correction
\* dictionary, the part before a separator is a key of the dictionary, a
\* canonical department name is contained in the text (the first one in the
\* order of the table), CENTRAL. The name of a district resolves to the
\* department of that district whatever the later strategies would give.
C24_DepartamentoPorEstrategias ==
  depSalida # <<>> /\ ~EsNulo(depEntrada) =>
    LET e == EstrategiaDepartamento(depEntrada)
    IN /\ depSalida[1] \in e.deptos
       /\ Cardinality(e.deptos) = 1

\* the resolver has returned the department of a district written in the
\* department field, the text containing the name of another department
C24_Testigo ==
  /\ depSalida # <<>> /\ ~EsNulo(depEntrada)
  /\ EstrategiaDepartamento(depEntrada).paso = 1
  /\ \E i \in DOMAIN departamento_orden :
       /\ Contiene(norm_str(depEntrada), norm_str(departamento_orden[i][1]))
       /\ departamento_orden[i][1] # depSalida[1]

\* the resolver has returned the department of the part before a separator,
\* the text containing the name of another department
C24_TestigoSeparador ==
  /\ depSalida # <<>> /\ ~EsNulo(depEntrada)
  /\ EstrategiaDepartamento(depEntrada).paso = 3
  /\ \E i \in DOMAIN departamento_orden :
       /\ Contiene(norm_str(depEntrada), norm_str(departamento_orden[i][1]))
       /\ departamento_orden[i][1] # depSalida[1]

\* the strategies 2, 4 and 5 have each given the result of a call
C24_TestigoDiccionario == depSalida # <<>> /\ ~EsNulo(depEntrada) /\ EstrategiaDepartamento(depEntrada).paso = 2
C24_TestigoContenido == depSalida # <<>> /\ ~EsNulo(depEntrada) /\ EstrategiaDepartamento(depEntrada).paso = 4
C24_TestigoDefecto == depSalida # <<>> /\ ~EsNulo(depEntrada) /\ EstrategiaDepartamento(depEntrada).paso = 5

-----------------------------------------------------------------------------
(* estandarizar_distrito_robusto on one value (SpecDistrito)                *)

\* department arguments: absent, empty, NaN (which resolves to CENTRAL), and
\* three canonical names
DepartamentosCaso ==
  {NONE, <<>>, NAN} \cup {DISTRITOS_POR_DEPARTAMENTO[i][1] : i \in 1..3}

\* district cells: null, blank, SIN ESPECIFICAR, misspelt and shortened
\* names, texts nothing matches, and the canonical districts of three
\* departments
DistritosEntrada ==
  {NONE, NAN, <<>>, <<" ">>, SIN_ESPECIFICAR, T_Luque, T_CnelOviedo, T_Coronel, T_SanPedro,
   T_Patricio, T_Zzz, T_Otro, <<"L", "u", "q", "e">>, <<"H", "o", "r", "q", "e", "t", "a">>}
    \cup UNION {Range(distritos_de(d)) : d \in DepartamentosCaso \cap Range(departamentos)}

\* the searches the call makes, in order: "departamento" for a search among
\* the districts of the resolved department, "todos" for one among all
busquedas_distrito(distrito, departamento, sem) ==
  IF EsNulo(distrito) THEN <<>>
  ELSE
    Sea(limpiar_texto(distrito), LAMBDA distrito_limpio :
      IF distrito_limpio = SIN_ESPECIFICAR THEN <<>>
      ELSE IF norm_str(distrito_limpio) \in DOMAIN estandarizacion_distritos_norm THEN <<>>
      ELSE IF ~Verdadero(departamento) THEN <<"todos">>
      ELSE IF buscar_mejor_coincidencia(distrito_limpio,
                                        opciones_busqueda(departamento, sem), 60) # NONE
        THEN <<"departamento">>
      ELSE <<"departamento", "todos">>)

InitDistrito ==
  /\ disCaso \in [distrito : DistritosEntrada, departamento : DepartamentosCaso, sem : Semillas]
  /\ disSalida = <<>>
  /\ ReposoPipeline /\ ReposoNumero /\ ReposoDepto /\ ReposoMatch
  /\ ReposoInfer /\ ReposoEvento /\ ReposoLocalidad /\ ReposoCarga

\* the call estandarizar_distrito_robusto(distrito, departamento)
ResolverDistrito ==
  /\ disSalida = <<>>
  /\ disSalida' =
       <<[r |-> estandarizar_distrito_robusto(disCaso.distrito, disCaso.departamento,
                                              disCaso.sem),
          busquedas |-> busquedas_distrito(disCaso.distrito, disCaso.departamento,
                                           disCaso.sem)]>>
  /\ UNCHANGED <<disCaso, varsPipeline, varsNumero, varsDepto, varsMatch,
                 varsInfer, varsEvento, varsLocalidad, varsCarga>>

NextDistrito == ResolverDistrito

SpecDistrito == InitDistrito /\ [][NextDistrito]_vars

-----------------------------------------------------------------------------
(* Properties of estandarizar_distrito_robusto (SpecDistrito)               *)

\* the cleaned text of the call, and whether a department was supplied
DistritoLimpio == limpiar_texto(disCaso.distrito)
ConDepartamento == Verdadero(disCaso.departamento)

\* the districts of candidatos the text of the call matches: equal keys, or
\* similarity of 0.6 or more
Coinciden(candidatos) ==
  {d \in candidatos :
     \/ norm_str(d) = norm_str(DistritoLimpio)
     \/ AlMenos(calcular_similitud(DistritoLimpio, d), 60)}

\* the districts of the department the department argument resolves to
DistritosDelDepartamento ==
  Range(distritos_de(estandarizar_departamento_robusto(disCaso.departamento)))

\* the call went past the dictionary: the cell is a text other than
\* SIN ESPECIFICAR and no key of the district dictionary
SinAtajo ==
  /\ ~EsNulo(disCaso.distrito) /\ DistritoLimpio # SIN_ESPECIFICAR
  /\ \A i \in DOMAIN estandarizacion_distritos :
       norm_str(estandarizacion_distritos[i][1]) # norm_str(DistritoLimpio)

\* what the strategy order fixes apart from when all districts are searched
OrdenDeEstrategias ==
  LET r == disSalida[1].r
  IN /\ EsNulo(disCaso.distrito) \/ DistritoLimpio = SIN_ESPECIFICAR => r = SIN_ESPECIFICAR
     /\ ~EsNulo(disCaso.distrito) /\ DistritoLimpio # SIN_ESPECIFICAR /\ ~SinAtajo =>
          \E i \in DOMAIN estandarizacion_distritos :
            /\ norm_str(estandarizacion_distritos[i][1]) = norm_str(DistritoLimpio)
            /\ r = estandarizacion_distritos[i][2]
     /\ SinAtajo /\ ConDepartamento /\ Coinciden(DistritosDelDepartamento) # {} =>
          r \in Coinciden(DistritosDelDepartamento)
     /\ SinAtajo /\ r # DistritoLimpio => Coinciden({r}) # {}

\* C25 as stated: the strategy order, where the search over all districts is
\* made only when a department was supplied and the search among its
\* districts found nothing.
C25_DistritoPorEstrategias ==
  disSalida # <<>> =>
    /\ OrdenDeEstrategias
    /\ "todos" \in Range(disSalida[1].busquedas) =>
         ConDepartamento /\ Coinciden(DistritosDelDepartamento) = {}

\* C25 amended: the strategy order, where with a department supplied all
\* districts are searched only after the search among its districts found
\* nothing, and with no department supplied the one search made is over all
\* districts and its match is returned.
C25_DistritoPorEstrategiasSegunDepartamento ==
  disSalida # <<>> =>
    /\ OrdenDeEstrategias
    /\ ConDepartamento /\ "todos" \in Range(disSalida[1].busquedas) =>
         Coinciden(DistritosDelDepartamento) = {}
    /\ SinAtajo /\ ~ConDepartamento => disSalida[1].busquedas = <<"todos">>
    /\ SinAtajo /\ "todos" \in Range(disSalida[1].busquedas) =>
         LET en_todos == Coinciden(Range(todos_distritos_validos))
         IN IF en_todos = {} THEN disSalida[1].r = DistritoLimpio
            ELSE disSalida[1].r \in en_todos

\* the call, with a department supplied, has returned a district of that
\* department although a district of another department has the key of the text
C25_Testigo ==
  /\ disSalida # <<>> /\ SinAtajo /\ ConDepartamento
  /\ disSalida[1].r \in DistritosDelDepartamento
  /\ \E d \in Range(todos_distritos_validos) \ DistritosDelDepartamento :
       norm_str(d) = norm_str(DistritoLimpio)

\* the call, with a department supplied, has returned a district of another
\* department after the search among the department's districts found nothing
C25_TestigoOtroDepartamento ==
  /\ disSalida # <<>> /\ SinAtajo /\ ConDepartamento
  /\ disSalida[1].busquedas = <<"departamento", "todos">>
  /\ disSalida[1].r \in Range(todos_distritos_validos) \ DistritosDelDepartamento

\* the call, with no department supplied, has returned a district for a text
\* that is not the name of one
C25_TestigoSinDepartamento ==
  /\ disSalida # <<>> /\ SinAtajo /\ ~ConDepartamento
  /\ disSalida[1].r \in Range(todos_distritos_validos)
  /\ disSalida[1].r # DistritoLimpio

\* C29: a canonical district is a fixed point of estandarizar_distrito_robusto
\* whatever the department argument: absent, the department of the district,
\* or any other department.
C29_DistritoCanonicoPuntoFijo ==
  disSalida # <<>> /\ disCaso.distrito \in Range(todos_distritos_validos) =>
    disSalida[1].r = disCaso.distrito

\* C29 for the calls without a department and for those with the department
\* the district belongs to
C29_PuntoFijoEnSuDepartamento ==
  /\ disSalida # <<>>
  /\ disCaso.distrito \in Range(todos_distritos_validos)
  /\ ~ConDepartamento \/ disCaso.distrito \in DistritosDelDepartamento
  => disSalida[1].r = disCaso.distrito

-----------------------------------------------------------------------------
(* More properties of estandarizar_localidad_robusta (SpecLocalidad)        *)

\* the locality and the district handed to the resolver, the cleaned text of
\* the locality, and the registry of the cleaner
LocalidadRecibida == locCorregida[1][1]
DistritoRecibido == locCorregida[1][2]
LocalidadLimpia == limpiar_texto(LocalidadRecibida)
RegistroDelCaso == cargar_barrios_desde_json(locCaso.archivo)

\* the localities the registry lists for the district, and for all districts
DelDistrito ==
  UNION {Range(RegistroDelCaso[i][2]) :
           i \in {k \in DOMAIN RegistroDelCaso : RegistroDelCaso[k][1] = norm_str(DistritoRecibido)}}
DeTodos == UNION {Range(RegistroDelCaso[i][2]) : i \in DOMAIN RegistroDelCaso}

\* the localities of candidatos the cleaned text matches with a similarity of
\* umbral hundredths or more
Parecidas(candidatos, umbral) ==
  {c \in candidatos :
     \/ norm_str(c) = norm_str(LocalidadLimpia)
     \/ AlMenos(calcular_similitud(LocalidadLimpia, c), umbral)}

\* the strategy of the order that applies to the call, 1 to 7
EstrategiaLocalidad ==
  IF EsNulo(LocalidadRecibida) \/ LocalidadLimpia = SIN_ESPECIFICAR
     \/ LocalidadLimpia = DistritoRecibido THEN 1
  ELSE IF norm_str(LocalidadLimpia) \in DelDistrito THEN 2
  ELSE IF Parecidas(DelDistrito, 85) # {} THEN 3
  ELSE IF Len(LocalidadLimpia) > 3 /\ Parecidas(DeTodos, 80) # {} THEN 4
  ELSE IF \E i \in DOMAIN palabras_clave_localidad :
            Contiene(LocalidadLimpia, palabras_clave_localidad[i]) THEN 5
  ELSE IF Len(LocalidadLimpia) < 3 THEN 6
  ELSE 7

\* C26: estandarizar_localidad_robusta follows its strategy order: a null or
\* blank locality, or one equal to the district, gives SIN ESPECIFICAR; else
\* a text found in the district's registry is kept; else a locality of the
\* district's registry that matches with 0.85 or more is returned; else, for
\* a text longer than 3 characters only, a locality of any district's
\* registry that matches with 0.80 or more; else a text with a locality
\* keyword is kept; else a text shorter than 3 characters gives
\* SIN ESPECIFICAR; otherwise the cleaned text is kept.
C26_LocalidadPorEstrategias ==
  locSalida # <<>> =>
    CASE EstrategiaLocalidad \in {1, 6} -> locSalida[1] = SIN_ESPECIFICAR
      [] EstrategiaLocalidad \in {2, 5, 7} -> locSalida[1] = LocalidadLimpia
      [] EstrategiaLocalidad = 3 -> locSalida[1] \in Parecidas(DelDistrito, 85)
      [] EstrategiaLocalidad = 4 -> locSalida[1] \in Parecidas(DeTodos, 80)

\* the resolver has returned a locality of another district's registry for a
\* misspelt name
C26_Testigo ==
  /\ locSalida # <<>> /\ EstrategiaLocalidad = 4
  /\ locSalida[1] \notin DelDistrito
  /\ norm_str(locSalida[1]) # norm_str(LocalidadLimpia)

\* each of the other strategies has given the result of a call
C26_TestigoExacta == locSalida # <<>> /\ EstrategiaLocalidad = 2
C26_TestigoDelDistrito ==
  locSalida # <<>> /\ EstrategiaLocalidad = 3 /\ norm_str(locSalida[1]) # norm_str(LocalidadLimpia)
C26_TestigoPalabraClave == locSalida # <<>> /\ EstrategiaLocalidad = 5
C26_TestigoCorta == locSalida # <<>> /\ EstrategiaLocalidad = 6
C26_TestigoTextoLimpio == locSalida # <<>> /\ EstrategiaLocalidad = 7

-----------------------------------------------------------------------------
(* More properties of estandarizar_evento_robusto (SpecEvento)              *)

\* the cleaned label of the call
EventoLimpio == limpiar_texto(evEntrada)

\* the entries of the dictionary whose key is the cleaned label, and the
\* entries of the keyword table whose keyword occurs in it
EntradasDelDiccionario ==
  {i \in DOMAIN estandarizacion_eventos : estandarizacion_eventos[i][1] = EventoLimpio}
PalabrasPresentes ==
  {i \in DOMAIN palabras_clave : Contiene(EventoLimpio, palabras_clave[i][1])}

\* the keywords of the table in its order, the lower-case entry left out
OrdenDePalabras ==
  << <<"C", "O", "V", "I", "D">>, INCENDIO, <<"T", "O", "R", "M", "E", "N", "T", "A">>,
     <<"T", "E", "M", "P", "O", "R", "A", "L">>, INUNDACION, SEQUIA,
     <<"J", "A", "H", "O">>, <<"N~", "E", "N~", "U", "A">>, <<"O", "L", "L", "A">>,
     <<"V", "U", "L", "N", "E", "R", "A", "B", "I", "L", "I", "D", "A", "D">>,
     <<"C", "I", "D", "H">>, <<"C", "O", "R", "T", "E">> >>

\* C27: estandarizar_evento_robusto gives SIN EVENTO for a null or blank
\* label; the value of the dictionary for a cleaned label that is one of its
\* keys, whatever keywords it contains; otherwise the category of the first
\* keyword of the table, in the fixed order of the table, that occurs in the
\* cleaned label; and SIN EVENTO, never ELIMINAR_REGISTRO, for a label with
\* neither.
C27_EventoPorEstrategias ==
  /\ SelectSeq([i \in DOMAIN palabras_clave |-> palabras_clave[i][1]],
               LAMBDA p : p = upper(p)) = OrdenDePalabras
  /\ evSalida # <<>> =>
       IF EsNulo(evEntrada) \/ strip(evEntrada) = <<>> THEN evSalida[1] = SIN_EVENTO
       ELSE IF EntradasDelDiccionario # {}
         THEN \E i \in EntradasDelDiccionario : evSalida[1] = estandarizacion_eventos[i][2]
       ELSE IF PalabrasPresentes # {}
         THEN \E i \in PalabrasPresentes :
                /\ \A j \in PalabrasPresentes : i <= j
                /\ evSalida[1] = palabras_clave[i][2]
       ELSE evSalida[1] = SIN_EVENTO /\ evSalida[1] # ELIMINAR_REGISTRO

\* the call has returned the value of the dictionary for a label with a
\* keyword of another category
C27_Testigo ==
  /\ evSalida # <<>> /\ ~EsNulo(evEntrada)
  /\ EntradasDelDiccionario # {}
  /\ \E i \in PalabrasPresentes :
       /\ \A j \in PalabrasPresentes : i <= j
       /\ evSalida[1] # palabras_clave[i][2]

\* the call has returned the category of the keyword that comes first in the
\* table for a label in which it comes second
C27_TestigoDosPalabras ==
  /\ evSalida # <<>> /\ ~EsNulo(evEntrada)
  /\ EntradasDelDiccionario = {}
  /\ \E i, j \in PalabrasPresentes : i < j /\ palabras_clave[i][2] # palabras_clave[j][2]
  /\ evSalida[1] = INCENDIO
  /\ Head(EventoLimpio) = "T"

\* the call has returned SIN EVENTO for a label with no entry and no keyword
C27_TestigoSinEvento ==
  /\ evSalida # <<>> /\ evEntrada = T_Otro /\ evSalida[1] = SIN_EVENTO

-----------------------------------------------------------------------------
(* More properties of normalize_locations (Spec)                            *)

\* the department of the hierarchy a canonical district belongs to
DuenoDe(distrito) ==
  {p[2] : p \in {q \in DistritosConDueno : q[1] = norm_str(distrito)}}

\* C28: after normalize_locations every record whose district is a canonical
\* district has the department that district belongs to in the hierarchy,
\* the records whose district was filled from the locality field by the
\* field-swap correction included.
C28_DepartamentoDelDistrito ==
  etapa = "ubicaciones" =>
    \A idx \in DOMAIN df :
      df[idx].DISTRITO \in Range(todos_distritos_validos) =>
        df[idx].DEPARTAMENTO \in DuenoDe(df[idx].DISTRITO)

\* C28 for the records whose district field was not empty
C28_ConDistritoEnSuCampo ==
  etapa = "ubicaciones" =>
    \A idx \in DOMAIN df :
      /\ df[idx].DISTRITO \in Range(todos_distritos_validos)
      /\ ~EsNulo(entrada[idx].DISTRITO) /\ strip(entrada[idx].DISTRITO) # <<>>
      => df[idx].DEPARTAMENTO \in DuenoDe(df[idx].DISTRITO)
====
